---------------------------- MODULE Spec2Model ----------------------------
(***************************************************************************)
(* A model of the image-enhancer pipeline:                                 *)
(*   - ImageEnhancementWorkflow.run      (src/temporalized/workflows.py)   *)
(*   - run_batch_image_workflows & co.   (src/temporalized/run_workflow.py)*)
(*   - WorkerManager                     (src/temporalized/start_workers.py)*)
(* The batch driver and the workflows it starts are one state machine      *)
(* (Spec; SpecCleanupFails runs it where no cleanup succeeds; SpecRetry    *)
(* where the first attempts of every step fail; SpecRerun runs the batch   *)
(* twice; SpecCancel and SpecBatchCancel add cancellation); the worker     *)
(* supervisor is another (SpecSup; SpecSupLive adds the fairness of the    *)
(* monitor loop; SpecSupLogs adds the threads that forward the workers'    *)
(* output); SpecParse applies parse_image_list to short strings.           *)
(* SpecLive gives the batch driver the fairness of the event loop;         *)
(* SpecFiles follows the temporary files of the activities                 *)
(* (src/temporalized/activities.py); SpecOriginal is one call of the       *)
(* standalone ImageEnhancer.process_image (src/original/image-enhancer.py).*)
(***************************************************************************)
EXTENDS Integers, Sequences, FiniteSets, TLC

\* ------------------------------------------------------------------ bounds
\* Largest number of job descriptors in the parsed batch input.
MaxJobs == 3
\* Largest max_concurrent tried (the smallest tried is -1).
MaxConcurrent == 2
\* Largest num_workers tried.
MaxWorkers == 2
\* Largest number of worker processes that exit on their own in one run.
MaxCrashes == 2
\* The count of monitor sleeps a dead process has stayed in its slot
\* saturates here.
SleepsCounted == 2
\* Largest number of stop_workers calls made on one WorkerManager.
MaxStopCalls == 2
\* Largest batch in the runs in which cancellation requests arrive.
MaxCancelJobs == 2
\* Largest number of workflow cancellation requests in one run.
MaxCancels == 1
\* Largest batch in the runs that are followed by a second run.
MaxRerunJobs == 2
\* Largest batch in the runs whose first attempts always fail.
MaxRetryJobs == 2
\* Largest batch in the runs checked for termination.
MaxLiveJobs == 2
\* Largest batch in the runs in which the temporary files are followed.
MaxFileJobs == 2
\* Largest number of lines a worker's pipe holds unread.
MaxPiped == 1
\* Longest string given to parse_image_list.
MaxChars == 5

\* ------------------------------------------------------- program constants
\* RetryPolicy(maximum_attempts=3) of the three main steps.
MaximumAttempts == 3
\* RetryPolicy(maximum_attempts=1) of the cleanup steps.
CleanupMaximumAttempts == 1
\* RetryPolicy(initial_interval=1 s, backoff_coefficient=2.0,
\* maximum_interval=5 min) of the three main steps, in seconds.
InitialInterval == 1
BackoffCoefficient == 2
MaximumInterval == 300
\* The exit code of a process ended by SIGTERM / by SIGKILL.
SIGTERM == 15
SIGKILL == 9

VARIABLES
    \* ---- batch driver (run_workflow.py)
    max_concurrent,        \* argument of run_batch_image_workflows
    parsed,                \* what parse_image_list returned
    images,                \* the list the batch runs (after the fallback)
    bpc,                   \* position of run_batch_image_workflows
    sem,                   \* asyncio.Semaphore._value
    waiters,               \* asyncio.Semaphore._waiters, oldest first
    woken,                 \* waiters whose future has been given a result
    tpc,                   \* position of each process_with_semaphore task
    results,               \* what each task ended with
    completed_count,       \* nonlocal completed_count
    started,               \* number of start_workflow calls made per job
    successful,            \* the summary's count of successes
    failed,                \* the summary's count of failures
    exit_code,             \* what main() returned to sys.exit
    \* ---- workflow executions (workflows.py)
    wpc,                   \* position of each ImageEnhancementWorkflow.run
    attempt,               \* attempts made of the activity now awaited
    original_image_path,
    enhanced_image_path,
    pending,               \* outcome leaving the try block: return / raise
    wfError,               \* the error being raised, with its attempt count
    cleaned,               \* cleanup_temp_file invocations, in order
    steps_ok,              \* the main steps whose activity has returned
    cleanup_outcomes,      \* the ways a cleanup attempt can end in this run
    cancelled_at,          \* where a cancellation request found the workflow
    \* ---- worker supervisor (start_workers.py)
    num_workers,           \* WorkerManager.num_workers
    spc,                   \* position of the supervisor's main thread
    idx,                   \* the loop index i (slot idx is worker_id idx)
    processes,             \* self.processes: the process held in each slot
    log_files,             \* self.log_files: the sink held in each slot
    new_process,           \* a launched process not yet stored (0: none)
    launched,              \* number of processes launched so far
    opened,                \* number of log sinks opened so far
    alive,                 \* per process: it is running
    exitcode,              \* per process: its return code once exited
    sinkOpen,              \* per sink: it is open
    termSent,              \* per process: terminate() calls made on it
    killSent,              \* per process: kill() calls made on it
    sleepsSinceExit,       \* per process: monitor sleeps slept since it exited
    crashes,               \* number of spontaneous process exits so far
    stopCalls,             \* number of stop_workers calls begun
    firstStop,             \* the supervisor state the first stop_workers left
    staggered,             \* number of stagger sleeps start_workers has slept
    \* ---- the server's retry timers and the activities it scheduled
    step_outcomes,         \* per attempt number, the ways a main attempt can end
    retry_wait,            \* per job: the backoff wait before the coming attempt
    invoked,               \* per job: the main activities scheduled, in order
    \* ---- one batch run after another
    run,                   \* number of the batch run (1 or 2)
    workflow_ids,          \* ids of the executions the server holds
    returned,              \* the list run_batch_image_workflows returned
    \* ---- parse_image_list on a delimited string
    images_config,         \* the string, one character per element
    parse_result,          \* what parse_image_list returned for it
    \* ---- the output-forwarding threads of the supervisor (show_logs)
    show_logs,             \* WorkerManager.show_logs
    piped,                 \* per process: lines in its pipe not yet forwarded
    late_writes,           \* processes whose thread wrote to a closed sink
    \* ---- temporary files of attempts that did not return (activities.py)
    fail_points,           \* where a failing attempt can fail in this run
    orphans,               \* per job: files of attempts that did not return
    \* ---- ImageEnhancer.process_image (src/original/image-enhancer.py)
    ppc,                   \* position of process_image
    pi_original_image_path,
    pi_enhanced_image_path,
    disk,                  \* the temporary files of this call that exist
    raising,               \* the exception on its way to the caller
    cleanup_calls,         \* number of cleanup_temp_files calls made
    warned                 \* paths whose deletion failure was logged

bvars == <<max_concurrent, parsed, images, bpc, sem, waiters, woken, tpc,
           results, completed_count, started, successful,
           failed, exit_code>>
wvars == <<wpc, attempt, original_image_path, enhanced_image_path, pending,
           wfError, cleaned, steps_ok, cancelled_at, cleanup_outcomes>>

svars == <<num_workers, spc, idx, processes, log_files, new_process, launched,
           opened, alive, exitcode, sinkOpen, termSent, killSent,
           sleepsSinceExit, crashes, stopCalls, firstStop>>

tvars == <<step_outcomes, retry_wait, invoked>>
rvars == <<run, workflow_ids, returned>>
pvars == <<images_config, parse_result>>
xvars == <<tvars, rvars, pvars, staggered>>
lvars == <<show_logs, piped, late_writes>>
fvars == <<fail_points, orphans>>
ovars == <<ppc, pi_original_image_path, pi_enhanced_image_path, disk, raising,
           cleanup_calls, warned>>
yvars == <<lvars, fvars, ovars>>

Jobs == 1..MaxJobs

\* Identities of the processes launched and of the sinks opened in one run:
\* one per slot at start and one more per restart.
Pids == 1..(MaxWorkers + MaxCrashes)

None == "None"
NoError == [step |-> "none", attempts |-> 0]

\* A job descriptor either has the four locator fields or lacks one.
Descriptors == {"complete", "missing_key"}

MainSteps == {"download", "enhance", "upload"}
Outcomes == {"ok", "error", "timeout"}

RECURSIVE SeqsUpTo(_, _)
SeqsUpTo(S, n) ==
    IF n = 0 THEN {<<>>}
    ELSE LET shorter == SeqsUpTo(S, n - 1)
         IN  shorter \cup {Append(s, x) : s \in {t \in shorter : Len(t) = n - 1}, x \in S}

\* ------------------------------------------------------------ the workflow

\* Mutant: the attempt count is compared one too late.
RetryExhaustedOffByOne(made) == made > MaximumAttempts

\* The retry policy gives up once maximum_attempts attempts have been made.
RetryExhausted(made) == made >= MaximumAttempts

\* Mutant: the finally block cleans without testing the path.
RecordedUnguarded(path) == TRUE

\* `if original_image_path:` / `if enhanced_image_path:` in the finally block.
Recorded(path) == path # None

\* Mutant: the outcome leaves run() without the finally block.
LeaveWithoutFinally == "closed"

\* Where control goes when the try block is left (return or raise): the
\* finally block runs before the outcome leaves run().
LeaveMainSteps == "cleanup_original"

\* Mutant: upload is awaited before enhance.
NextStepUploadFirst(step) ==
    CASE step = "download" -> "upload"
      [] step = "upload"   -> "enhance"
      [] step = "enhance"  -> LeaveMainSteps

\* The order of the awaits in the try block.
NextStep(step) ==
    CASE step = "download" -> "enhance"
      [] step = "enhance"  -> "upload"
      [] step = "upload"   -> LeaveMainSteps

\* Mutant: a terminal error is logged and the next step is awaited.
OnTerminalErrorContinue(step) == NextStep(step)

\* `except Exception as e: ... raise`: the error of a step leaves the try
\* block, whichever step it was.
OnTerminalError(step) == LeaveMainSteps

\* Mutant: the attempts made are kept when the next activity is scheduled.
FreshBudgetCarried(made) == made

\* Every execute_activity call passes retry_policy to a new activity: the
\* server counts its attempts from zero.
FreshBudget(made) == 0

RECURSIVE Power(_, _)
Power(b, n) == IF n = 0 THEN 1 ELSE b * Power(b, n - 1)

Min(a, b) == IF a <= b THEN a ELSE b

\* Mutant: the first retry already waits initial_interval * coefficient.
BackoffIntervalOffByOne(failures) ==
    Min(InitialInterval * Power(BackoffCoefficient, failures), MaximumInterval)

\* The wait the retry policy puts before the next attempt once `failures`
\* attempts have failed: initial_interval * coefficient^(failures - 1),
\* capped at maximum_interval.
BackoffInterval(failures) ==
    Min(InitialInterval * Power(BackoffCoefficient, failures - 1),
        MaximumInterval)

\* Mutant: one retry timer is shared, so an attempt waits for the retry
\* waits of all the other executions.
RetryWaitsAheadShared(j) == {k \in Jobs \ {j} : retry_wait[k] > 0}

\* The other executions whose retry wait must end before an attempt of j's
\* activity is made: none, every execute_activity call has its own policy
\* and the driver only awaits handle.result().
RetryWaitsAhead(j) == {}

\* The ways attempt number n of a main activity can end in this run.
OutcomesOf(n) == IF n \in DOMAIN step_outcomes THEN step_outcomes[n] ELSE Outcomes

\* An attempt of the awaited main activity returns.
StepSucceeds(j) ==
    /\ wpc[j] \in MainSteps
    /\ ~RetryExhausted(attempt[j])
    /\ RetryWaitsAhead(j) = {}
    /\ "ok" \in OutcomesOf(attempt[j] + 1)
    /\ original_image_path' =
         IF wpc[j] = "download"
         THEN [original_image_path EXCEPT ![j] = "original"]
         ELSE original_image_path
    /\ enhanced_image_path' =
         IF wpc[j] = "enhance"
         THEN [enhanced_image_path EXCEPT ![j] = "enhanced"]
         ELSE enhanced_image_path
    /\ wpc' = [wpc EXCEPT ![j] = NextStep(wpc[j])]
    /\ invoked' = IF NextStep(wpc[j]) \in MainSteps
                  THEN [invoked EXCEPT ![j] = Append(@, NextStep(wpc[j]))]
                  ELSE invoked
    /\ attempt' = [attempt EXCEPT ![j] = FreshBudget(attempt[j])]
    /\ retry_wait' = [retry_wait EXCEPT ![j] = 0]
    /\ pending' = IF NextStep(wpc[j]) = LeaveMainSteps
                  THEN [pending EXCEPT ![j] = "return"]
                  ELSE pending
    /\ steps_ok' = [steps_ok EXCEPT ![j] = @ \cup {wpc[j]}]
    /\ UNCHANGED <<wfError, cleaned, cancelled_at, cleanup_outcomes>>
    /\ UNCHANGED <<bvars, svars>>
    /\ UNCHANGED <<step_outcomes, rvars, pvars, staggered>>
    /\ UNCHANGED yvars

\* The temporary files an attempt of `step` leaves on disk when it fails or
\* times out at point pt: download and enhance create their file with
\* NamedTemporaryFile(delete=False) (activities.py lines 64 and 101) before
\* the call that can fail, and only a returned path ever reaches the
\* workflow; upload creates no file.
TempFilesLeft(step, pt) ==
    IF step \in {"download", "enhance"} /\ pt = "after_tempfile" THEN 1 ELSE 0

\* An attempt fails (raises or exceeds start_to_close_timeout) and the retry
\* policy schedules another one after the backoff wait.
StepFailsRetry(j) ==
    /\ wpc[j] \in MainSteps
    /\ ~RetryExhausted(attempt[j])
    /\ RetryWaitsAhead(j) = {}
    /\ \E o \in OutcomesOf(attempt[j] + 1) \ {"ok"} :
         /\ ~RetryExhausted(attempt[j] + 1)
         /\ attempt' = [attempt EXCEPT ![j] = attempt[j] + 1]
         /\ retry_wait' = [retry_wait EXCEPT
                             ![j] = BackoffInterval(attempt[j] + 1)]
    /\ \E pt \in fail_points :
         orphans' = [orphans EXCEPT ![j] = @ + TempFilesLeft(wpc[j], pt)]
    /\ UNCHANGED <<wpc, original_image_path, enhanced_image_path, pending,
                   wfError, cleaned, steps_ok, cancelled_at, cleanup_outcomes>>
    /\ UNCHANGED <<bvars, svars>>
    /\ UNCHANGED <<step_outcomes, invoked, rvars, pvars, staggered>>
    /\ UNCHANGED <<fail_points, lvars, ovars>>

\* The last attempt the policy allows fails: execute_activity raises, the
\* except clause logs and re-raises, and control enters the finally block.
StepFailsTerminal(j) ==
    /\ wpc[j] \in MainSteps
    /\ ~RetryExhausted(attempt[j])
    /\ RetryWaitsAhead(j) = {}
    /\ \E o \in OutcomesOf(attempt[j] + 1) \ {"ok"} :
         /\ RetryExhausted(attempt[j] + 1)
         /\ wfError' = [wfError EXCEPT
                          ![j] = [step |-> wpc[j], attempts |-> attempt[j] + 1]]
    /\ pending' = [pending EXCEPT ![j] = "raise"]
    /\ wpc' = [wpc EXCEPT ![j] = OnTerminalError(wpc[j])]
    /\ attempt' = [attempt EXCEPT ![j] = 0]
    /\ retry_wait' = [retry_wait EXCEPT ![j] = 0]
    /\ \E pt \in fail_points :
         orphans' = [orphans EXCEPT ![j] = @ + TempFilesLeft(wpc[j], pt)]
    /\ UNCHANGED <<original_image_path, enhanced_image_path, cleaned,
                   steps_ok, cancelled_at, cleanup_outcomes>>
    /\ UNCHANGED <<bvars, svars>>
    /\ UNCHANGED <<step_outcomes, invoked, rvars, pvars, staggered>>
    /\ UNCHANGED <<fail_points, lvars, ovars>>

\* Mutant: the cleanup activities run under the main steps' retry policy.
CleanupExhaustedAsMainSteps(made) == made >= MaximumAttempts

\* The cleanup policy (maximum_attempts=1) gives up after its single attempt.
CleanupExhausted(made) == made >= CleanupMaximumAttempts

\* Mutant: the except clauses of the finally block catch nothing.
CaughtNothing(e) == FALSE

\* `except Exception`: every exception but those deriving from BaseException
\* alone (asyncio.CancelledError, SystemExit, KeyboardInterrupt).
Caught(e) == e \notin {"CancelledError", "SystemExit", "KeyboardInterrupt"}

\* Mutant: a cancelled activity surfaces as a bare asyncio.CancelledError.
CancellationErrorBare == "CancelledError"

\* What execute_activity raises in the workflow when the awaited activity was
\* cancelled: an ActivityError (whose cause is a CancelledError).
CancellationError == "ActivityError"

\* A cleanup activity has failed for good with exception e: the except clause
\* logs a warning and the finally block goes on with `next`; an exception it
\* does not catch leaves run() at once and replaces the pending outcome.
CleanupFails(j, path, e, next) ==
    IF Caught(e)
    THEN /\ wpc' = [wpc EXCEPT ![j] = next]
         /\ UNCHANGED <<pending, wfError>>
    ELSE /\ wpc' = [wpc EXCEPT ![j] = "closed"]
         /\ pending' = [pending EXCEPT ![j] = "raise"]
         /\ wfError' = [wfError EXCEPT
                          ![j] = [step |-> "cleanup", attempts |-> attempt[j] + 1]]

\* One attempt of a cleanup_temp_file activity for `path`, ending `o`: the
\* workflow moves on when the attempt returned or the policy is exhausted
\* (the ActivityError is then caught and logged as a warning).
CleanupAttempt(j, path, o, next) ==
    /\ cleaned' = [cleaned EXCEPT ![j] = Append(@, path)]
    /\ IF o = "ok"
       THEN /\ wpc' = [wpc EXCEPT ![j] = next]
            /\ attempt' = [attempt EXCEPT ![j] = 0]
            /\ UNCHANGED <<pending, wfError>>
       ELSE IF CleanupExhausted(attempt[j] + 1)
       THEN /\ attempt' = [attempt EXCEPT ![j] = 0]
            /\ CleanupFails(j, path, "ActivityError", next)
       ELSE /\ attempt' = [attempt EXCEPT ![j] = attempt[j] + 1]
            /\ UNCHANGED <<wpc, pending, wfError>>

\* finally, first half: `if original_image_path:` guards one cleanup activity.
CleanupOriginal(j) ==
    /\ wpc[j] = "cleanup_original"
    /\ IF Recorded(original_image_path[j])
       THEN \E o \in cleanup_outcomes :
              CleanupAttempt(j, original_image_path[j], o, "cleanup_enhanced")
       ELSE /\ wpc' = [wpc EXCEPT ![j] = "cleanup_enhanced"]
            /\ UNCHANGED <<cleaned, attempt, pending, wfError>>
    /\ UNCHANGED <<original_image_path, enhanced_image_path, steps_ok,
                   cancelled_at, cleanup_outcomes>>
    /\ UNCHANGED <<bvars, svars>>
    /\ UNCHANGED xvars
    /\ UNCHANGED yvars

\* finally, second half: the same for the enhanced path; then the pending
\* return value or exception leaves run() and the execution is closed.
CleanupEnhanced(j) ==
    /\ wpc[j] = "cleanup_enhanced"
    /\ IF Recorded(enhanced_image_path[j])
       THEN \E o \in cleanup_outcomes :
              CleanupAttempt(j, enhanced_image_path[j], o, "closed")
       ELSE /\ wpc' = [wpc EXCEPT ![j] = "closed"]
            /\ UNCHANGED <<cleaned, attempt, pending, wfError>>
    /\ UNCHANGED <<original_image_path, enhanced_image_path, steps_ok,
                   cancelled_at, cleanup_outcomes>>
    /\ UNCHANGED <<bvars, svars>>
    /\ UNCHANGED xvars
    /\ UNCHANGED yvars

\* The activity the workflow awaits at its position, if it awaits one: a main
\* step, or a cleanup whose path is recorded.
AwaitsActivity(j) ==
    \/ wpc[j] \in MainSteps
    \/ wpc[j] = "cleanup_original" /\ Recorded(original_image_path[j])
    \/ wpc[j] = "cleanup_enhanced" /\ Recorded(enhanced_image_path[j])

\* A cancellation request reaches the execution (from the server's UI, CLI or
\* API) while it awaits an activity: the activity is cancelled without retry
\* and execute_activity raises. In a main step the except clause logs and
\* re-raises and the finally block runs; in a cleanup the cleanup's own except
\* clause decides. The request is delivered once.
CancelWorkflow(j) ==
    /\ cancelled_at[j] = "none"
    /\ Cardinality({k \in Jobs : cancelled_at[k] # "none"}) < MaxCancels
    /\ AwaitsActivity(j)
    /\ cancelled_at' = [cancelled_at EXCEPT ![j] = wpc[j]]
    /\ attempt' = [attempt EXCEPT ![j] = 0]
    /\ IF wpc[j] \in MainSteps
       THEN /\ wfError' = [wfError EXCEPT
                             ![j] = [step |-> wpc[j], attempts |-> attempt[j]]]
            /\ pending' = [pending EXCEPT ![j] = "raise"]
            /\ wpc' = [wpc EXCEPT ![j] = OnTerminalError(wpc[j])]
            /\ UNCHANGED cleaned
       ELSE IF wpc[j] = "cleanup_original"
       THEN /\ cleaned' = [cleaned EXCEPT ![j] = Append(@, original_image_path[j])]
            /\ CleanupFails(j, original_image_path[j], CancellationError,
                            "cleanup_enhanced")
       ELSE /\ cleaned' = [cleaned EXCEPT ![j] = Append(@, enhanced_image_path[j])]
            /\ CleanupFails(j, enhanced_image_path[j], CancellationError,
                            "closed")
    /\ retry_wait' = [retry_wait EXCEPT ![j] = 0]
    /\ UNCHANGED <<original_image_path, enhanced_image_path, steps_ok,
                   cleanup_outcomes>>
    /\ UNCHANGED <<bvars, svars>>
    /\ UNCHANGED <<step_outcomes, invoked, rvars, pvars, staggered>>
    /\ UNCHANGED yvars

\* -------------------------------------------------------- the batch driver

\* Mutant: a permit is still handed out when none is left.
LockedOffByOne == sem < 0 \/ waiters # <<>>

\* asyncio.Semaphore.locked(): no permit left, or somebody is already waiting.
Locked == sem = 0 \/ waiters # <<>>

\* The tasks inside the body of `async with semaphore:`.
InFlight == {j \in Jobs : tpc[j] \in {"starting", "awaiting"}}

\* Mutant: the waiters whose future is not done yet, newest first.
NotWokenNewestFirst(ws, wk) ==
    [i \in 1..Len(SelectSeq(ws, LAMBDA w : w \notin wk)) |->
        SelectSeq(ws, LAMBDA w : w \notin wk)
            [Len(SelectSeq(ws, LAMBDA w : w \notin wk)) + 1 - i]]

\* The waiters whose future is not done yet, oldest first.
NotWoken(ws, wk) == SelectSeq(ws, LAMBDA w : w \notin wk)

\* Mutant: a released permit is never handed to a waiter.
WakeUpNextNobody(value, ws, wk) == <<value, wk>>

\* Semaphore._wake_up_next() on (value, waiters, woken): the first waiter whose
\* future is not done takes a permit and has its future set.
\* Gives the new <<value, woken>>.
WakeUpNext(value, ws, wk) ==
    IF NotWoken(ws, wk) # <<>>
    THEN <<value - 1, wk \cup {Head(NotWoken(ws, wk))}>>
    ELSE <<value, wk>>

\* Semaphore.release(): value += 1, then _wake_up_next().
Release(value, ws, wk) == WakeUpNext(value + 1, ws, wk)

\* The record run_single_image_workflow returns from its except clause.
FailedRecord(etype) == [kind |-> "record", status |-> "failed", error_type |-> etype]
\* The record it returns when handle.result() returned.
SuccessRecord == [kind |-> "record", status |-> "success", error_type |-> "none"]
\* An exception that left process_with_semaphore, as gather(return_exceptions=True)
\* stores it.
ExceptionObject(etype) == [kind |-> "exception", status |-> "none", error_type |-> etype]
NoResult == [kind |-> "none", status |-> "none", error_type |-> "none"]

\* parse_image_list's result, then the single-image fallback of an empty list.
Fallback(list) == IF list = <<>> THEN <<"complete">> ELSE list

\* Lines 196-258: parse, fall back, build config, connect to the server.
Connect ==
    /\ bpc = "init"
    /\ images' = Fallback(parsed)
    /\ \E o \in {"ok", "error"} :
         bpc' = IF o = "ok" THEN "connected" ELSE "raised"
    /\ UNCHANGED <<max_concurrent, parsed, sem, waiters, woken, tpc, results,
                   completed_count, started, successful,
                   failed, exit_code>>
    /\ UNCHANGED <<wvars, svars>>
    /\ UNCHANGED xvars
    /\ UNCHANGED yvars

\* Lines 261-296: Semaphore(max_concurrent) raises ValueError for a negative
\* value; otherwise one task per image is created and gathered.
CreateTasks ==
    /\ bpc = "connected"
    /\ IF max_concurrent < 0
       THEN /\ bpc' = "raised"
            /\ UNCHANGED <<sem, tpc>>
       ELSE /\ bpc' = "gather"
            /\ sem' = max_concurrent
            /\ tpc' = [j \in Jobs |-> IF j <= Len(images) THEN "created" ELSE "none"]
    /\ UNCHANGED <<max_concurrent, parsed, images, waiters, woken, results,
                   completed_count, started, successful,
                   failed, exit_code>>
    /\ UNCHANGED <<wvars, svars>>
    /\ UNCHANGED xvars
    /\ UNCHANGED yvars

\* The body of `async with semaphore:` up to its first await, entered by task
\* j holding a permit, from semaphore state (value, ws, wk): the two
\* S3Location(...) lines raise KeyError for a descriptor lacking a field, the
\* exception leaves the `async with` (release) and ends the task.
EnterBody(j, value, ws, wk) ==
    IF images[j] = "complete"
    THEN /\ tpc' = [tpc EXCEPT ![j] = "starting"]
         /\ sem' = value
         /\ woken' = wk
         /\ waiters' = ws
         /\ UNCHANGED results
    ELSE /\ tpc' = [tpc EXCEPT ![j] = "done"]
         /\ results' = [results EXCEPT ![j] = ExceptionObject("KeyError")]
         /\ sem' = Release(value, ws, wk)[1]
         /\ woken' = Release(value, ws, wk)[2]
         /\ waiters' = ws

\* A task's first run (tasks first run in creation order): semaphore.acquire()
\* takes a permit at once or queues the task.
TaskStart(j) ==
    /\ bpc = "gather"
    /\ tpc[j] = "created"
    /\ \A k \in Jobs : k < j => tpc[k] # "created"
    /\ IF ~Locked
       THEN EnterBody(j, sem - 1, waiters, woken)
       ELSE /\ waiters' = Append(waiters, j)
            /\ tpc' = [tpc EXCEPT ![j] = "waiting"]
            /\ UNCHANGED <<sem, woken, results>>
    /\ UNCHANGED <<max_concurrent, parsed, images, bpc, completed_count,
                   started, successful, failed, exit_code>>
    /\ UNCHANGED <<wvars, svars>>
    /\ UNCHANGED xvars
    /\ UNCHANGED yvars

\* Every task has had its first run. The tasks gather creates are all ready
\* at once and the event loop runs them in creation order before it resumes
\* a woken waiter or handles the completion of any network call.
AllTasksRan == \A k \in Jobs : tpc[k] # "created"

\* The waiters whose future is done, in the order their futures were set:
\* the order in which the event loop resumes them.
Resumable == SelectSeq(waiters, LAMBDA w : w \in woken)

\* What acquire() does once its future is set, from (value, ws, wk) with the
\* waiter already removed: `if self._value > 0: self._wake_up_next()`.
AfterWait(value, ws, wk) ==
    IF value > 0 THEN WakeUpNext(value, ws, wk) ELSE <<value, wk>>

\* A woken waiter resumes in acquire(): it leaves the queue, wakes the next
\* waiter if a permit is left, and enters the body.
WakeUp(j) ==
    /\ tpc[j] = "waiting"
    /\ AllTasksRan
    /\ Resumable # <<>>
    /\ j = Head(Resumable)
    /\ EnterBody(j,
                 AfterWait(sem, SelectSeq(waiters, LAMBDA w : w # j),
                           woken \ {j})[1],
                 SelectSeq(waiters, LAMBDA w : w # j),
                 AfterWait(sem, SelectSeq(waiters, LAMBDA w : w # j),
                           woken \ {j})[2])
    /\ UNCHANGED <<max_concurrent, parsed, images, bpc, completed_count,
                   started, successful, failed, exit_code>>
    /\ UNCHANGED <<wvars, svars>>
    /\ UNCHANGED xvars
    /\ UNCHANGED yvars

\* Mutant: every workflow is started under one and the same id.
WorkflowIdConstant(r, j) == <<1, 1>>

\* workflow_id = f"image-enhancement-{uuid.uuid4()}": an id no other call of
\* run_single_image_workflow gets, here the pair of run and job.
WorkflowId(r, j) == <<r, j>>

\* The ids of the executions that are open.
OpenIds == {WorkflowId(run, k) : k \in {i \in Jobs : wpc[i] \notin {"none", "closed"}}}

\* start_workflow is refused (WorkflowAlreadyStartedError) for an id the
\* server holds an open execution under; no id_reuse_policy is passed, so
\* the id of a closed execution may be used again.
Refused(id) == id \in workflow_ids /\ id \in OpenIds

\* Mutant: start_workflow is called again when its first call returned.
CallsMadeTwice(n) == n + 2

\* One pass through the try block of run_single_image_workflow makes one
\* start_workflow call.
CallsMade(n) == n + 1

\* The rest of process_with_semaphore once run_single_image_workflow has
\* returned `rec`: count, report progress, leave the `async with`, return.
FinishTask(j, rec) ==
    /\ tpc' = [tpc EXCEPT ![j] = "done"]
    /\ results' = [results EXCEPT ![j] = rec]
    /\ completed_count' = completed_count + 1
    /\ sem' = Release(sem, waiters, woken)[1]
    /\ woken' = Release(sem, waiters, woken)[2]
    /\ UNCHANGED waiters

\* client.start_workflow is answered by the server: it returns a handle, the
\* execution exists and the task awaits handle.result(); or the id is
\* refused and the except clause turns the error into a failed record.
StartWorkflowOk(j) ==
    /\ tpc[j] = "starting"
    /\ AllTasksRan
    /\ started' = [started EXCEPT ![j] = CallsMade(@)]
    /\ IF Refused(WorkflowId(run, j))
       THEN /\ FinishTask(j, FailedRecord("WorkflowAlreadyStartedError"))
            /\ UNCHANGED <<wpc, invoked, workflow_ids>>
       ELSE /\ tpc' = [tpc EXCEPT ![j] = "awaiting"]
            /\ wpc' = [wpc EXCEPT ![j] = "download"]
            /\ invoked' = [invoked EXCEPT ![j] = <<"download">>]
            /\ workflow_ids' = workflow_ids \cup {WorkflowId(run, j)}
            /\ UNCHANGED <<sem, waiters, woken, results, completed_count>>
    /\ UNCHANGED <<max_concurrent, parsed, images, bpc, successful,
                   failed, exit_code>>
    /\ UNCHANGED <<attempt, original_image_path, enhanced_image_path, pending,
                   wfError, cleaned, steps_ok, cancelled_at, cleanup_outcomes>>
    /\ UNCHANGED svars
    /\ UNCHANGED <<step_outcomes, retry_wait, run, returned, pvars,
                   staggered>>
    /\ UNCHANGED yvars

\* client.start_workflow raises (the server cannot be reached): the except
\* clause of run_single_image_workflow turns it into a failed record.
StartWorkflowFails(j) ==
    /\ tpc[j] = "starting"
    /\ AllTasksRan
    /\ started' = [started EXCEPT ![j] = CallsMade(@)]
    /\ FinishTask(j, FailedRecord("RPCError"))
    /\ UNCHANGED <<max_concurrent, parsed, images, bpc, successful, failed,
                   exit_code>>
    /\ UNCHANGED <<wvars, svars>>
    /\ UNCHANGED xvars
    /\ UNCHANGED yvars

\* Mutant: every closed execution is recorded as a success.
ResultRecordAlwaysSuccess(outcome) == SuccessRecord

\* What run_single_image_workflow returns for a closed execution: the success
\* record when handle.result() returned, the failed record of its except
\* clause when handle.result() raised WorkflowFailureError.
ResultRecord(outcome) ==
    IF outcome = "return"
    THEN SuccessRecord
    ELSE FailedRecord("WorkflowFailureError")

\* handle.result() returns the success string or raises WorkflowFailureError
\* once the execution is closed.
ResultArrives(j) ==
    /\ tpc[j] = "awaiting"
    /\ wpc[j] = "closed"
    /\ FinishTask(j, ResultRecord(pending[j]))
    /\ UNCHANGED <<max_concurrent, parsed, images, bpc, started, successful,
                   failed, exit_code>>
    /\ UNCHANGED <<wvars, svars>>
    /\ UNCHANGED xvars
    /\ UNCHANGED yvars

\* Mutant: gather without return_exceptions ends at the first task that raises
\* or fails.
GatherFailFast ==
    \/ \A j \in Jobs : tpc[j] \in {"none", "done"}
    \/ \E j \in Jobs : tpc[j] = "done" /\ results[j].status # "success"

\* asyncio.gather(*tasks, return_exceptions=True) is done when every task is,
\* whether it returned or raised.
GatherReady == \A j \in Jobs : tpc[j] \in {"none", "done"}

\* Mutant: the summary loop without its isinstance branch.
CountedFailedRecordsOnly(r) == r.kind = "record" /\ r.status # "success"

\* The summary loop, lines 305-311: `failed += 1` for an exception object and
\* for a record whose status is not 'success'.
CountedFailed(r) ==
    IF r.kind = "exception" THEN TRUE
    ELSE IF r.status = "success" THEN FALSE
    ELSE TRUE

\* The summary loop: `successful += 1`.
CountedSuccessful(r) == r.kind # "exception" /\ r.status = "success"

\* Mutant: the list holds the results from the last task to the first.
GatherResultsReversed ==
    [i \in 1..Len(images) |-> results[Len(images) + 1 - i]]

\* What `await asyncio.gather(*tasks, return_exceptions=True)` returns: the
\* result of each task, in the order of the tasks.
GatherResults == [i \in 1..Len(images) |-> results[i]]

\* gather returns; the summary is counted from the results list and logged,
\* and the results list returned.
GatherDone ==
    /\ bpc = "gather"
    /\ GatherReady
    /\ bpc' = "returned"
    /\ successful' = Cardinality({j \in 1..Len(images) : CountedSuccessful(results[j])})
    /\ failed' = Cardinality({j \in 1..Len(images) : CountedFailed(results[j])})
    /\ returned' = GatherResults
    /\ UNCHANGED <<max_concurrent, parsed, images, sem, waiters, woken, tpc,
                   results, completed_count, started, exit_code>>
    /\ UNCHANGED <<wvars, svars>>
    /\ UNCHANGED <<tvars, run, workflow_ids, pvars, staggered>>
    /\ UNCHANGED yvars

\* main(), lines 424-433: 0 when every result is a success record, else 1.
ExitCode(ok, total) == IF ok = total THEN 0 ELSE 1

\* main(), lines 418-438: count the success records of the returned list and
\* return the exit code; an exception of the batch run gives 1.
MainReturn ==
    /\ bpc \in {"returned", "raised"}
    /\ exit_code = <<>>
    /\ exit_code' =
         IF bpc = "raised" THEN <<1>>
         ELSE <<ExitCode(Cardinality({j \in 1..Len(images) :
                                         /\ results[j].kind = "record"
                                         /\ results[j].status = "success"}),
                         Len(images))>>
    /\ UNCHANGED <<max_concurrent, parsed, images, bpc, sem, waiters, woken,
                   tpc, results, completed_count, started,
                   successful, failed>>
    /\ UNCHANGED <<wvars, svars>>
    /\ UNCHANGED xvars
    /\ UNCHANGED yvars

\* The external operation of job j that failed for good in this run (the
\* start_workflow call or a main activity), if any.
FailedOperation(j) ==
    IF results[j].error_type = "RPCError" THEN "start_workflow"
    ELSE wfError[j].step

\* The class the summary gives a result: success or failed.
Classified(r) == IF CountedSuccessful(r) THEN "success" ELSE "failed"

\* The script is run again after main() has returned, with the same
\* environment: a new process, in which nothing of the first run is left but
\* the executions the server holds.
RunAgain ==
    /\ run = 1
    /\ exit_code # <<>>
    /\ run' = 2
    /\ images' = <<>>
    /\ bpc' = "init"
    /\ sem' = 0
    /\ waiters' = <<>>
    /\ woken' = {}
    /\ tpc' = [j \in Jobs |-> "none"]
    /\ results' = [j \in Jobs |-> NoResult]
    /\ completed_count' = 0
    /\ started' = [j \in Jobs |-> 0]
    /\ successful' = 0
    /\ failed' = 0
    /\ exit_code' = <<>>
    /\ returned' = <<>>
    /\ wpc' = [j \in Jobs |-> "none"]
    /\ attempt' = [j \in Jobs |-> 0]
    /\ original_image_path' = [j \in Jobs |-> None]
    /\ enhanced_image_path' = [j \in Jobs |-> None]
    /\ pending' = [j \in Jobs |-> "none"]
    /\ wfError' = [j \in Jobs |-> NoError]
    /\ cleaned' = [j \in Jobs |-> <<>>]
    /\ steps_ok' = [j \in Jobs |-> {}]
    /\ cancelled_at' = [j \in Jobs |-> "none"]
    /\ retry_wait' = [j \in Jobs |-> 0]
    /\ invoked' = [j \in Jobs |-> <<>>]
    /\ UNCHANGED <<max_concurrent, parsed, cleanup_outcomes, step_outcomes,
                   workflow_ids>>
    /\ UNCHANGED <<svars, pvars, staggered>>
    /\ UNCHANGED yvars

\* The batch run is cancelled while it awaits gather (an interrupt of
\* asyncio.run cancels the main task): gather cancels every task that is not
\* done. A task that never ran or waits for a permit ends without starting a
\* workflow; a task inside the body gets CancelledError at its await, which
\* `except Exception` does not catch, and leaves the `async with` (release).
\* A start_workflow call in flight may or may not have reached the server.
\* No call is made on any workflow handle.
CancelBatch ==
    /\ bpc = "gather"
    /\ bpc' = "cancelled"
    /\ tpc' = [j \in Jobs |-> IF tpc[j] \in {"none", "done"}
                              THEN tpc[j] ELSE "cancelled"]
    /\ sem' = sem + Cardinality(InFlight) + Cardinality(woken)
    /\ waiters' = <<>>
    /\ woken' = {}
    /\ \E reached \in SUBSET {j \in Jobs : tpc[j] = "starting"} :
         /\ wpc' = [j \in Jobs |-> IF j \in reached THEN "download" ELSE wpc[j]]
         /\ invoked' = [j \in Jobs |-> IF j \in reached
                                       THEN <<"download">> ELSE invoked[j]]
         /\ workflow_ids' =
              workflow_ids \cup {WorkflowId(run, j) : j \in reached}
         /\ started' = [j \in Jobs |-> IF tpc[j] = "starting"
                                       THEN CallsMade(started[j])
                                       ELSE started[j]]
    /\ UNCHANGED <<max_concurrent, parsed, images, results, completed_count,
                   successful, failed, exit_code>>
    /\ UNCHANGED <<attempt, original_image_path, enhanced_image_path, pending,
                   wfError, cleaned, steps_ok, cancelled_at, cleanup_outcomes>>
    /\ UNCHANGED svars
    /\ UNCHANGED <<step_outcomes, retry_wait, run, returned, pvars,
                   staggered>>
    /\ UNCHANGED yvars

\* ------------------------------------------------------- parse_image_list

\* The characters of the strings tried: a letter, the path separator, the
\* list separator and a blank. No string over them is a JSON list, so
\* json.loads raises or returns something that is not a list.
Chars == {"a", "/", ",", " "}

\* The prefix 'enhanced_', as one element.
Prefix == <<"enhanced_">>

\* str.split(','): the pieces between the separators, empty ones included.
RECURSIVE Split(_)
Split(s) ==
    IF \A i \in 1..Len(s) : s[i] # ","
    THEN <<s>>
    ELSE LET i == CHOOSE i \in 1..Len(s) :
                      s[i] = "," /\ \A k \in 1..(i - 1) : s[k] # ","
         IN  <<SubSeq(s, 1, i - 1)>> \o Split(SubSeq(s, i + 1, Len(s)))

RECURSIVE LStrip(_, _)
LStrip(s, c) == IF s # <<>> /\ Head(s) = c THEN LStrip(Tail(s), c) ELSE s

RECURSIVE RStrip(_, _)
RStrip(s, c) ==
    IF s # <<>> /\ s[Len(s)] = c THEN RStrip(SubSeq(s, 1, Len(s) - 1), c) ELSE s

\* str.strip()
Strip(s) == RStrip(LStrip(s, " "), " ")

\* str.rfind(c) + 1: the position of the last c, 0 when there is none.
RFind(s, c) ==
    IF \E i \in 1..Len(s) : s[i] = c
    THEN CHOOSE i \in 1..Len(s) :
             s[i] = c /\ \A k \in (i + 1)..Len(s) : s[k] # c
    ELSE 0

\* os.path.basename: what follows the last '/'.
Basename(path) == SubSeq(path, RFind(path, "/") + 1, Len(path))

\* os.path.dirname: what precedes the last '/', without its trailing
\* slashes unless it consists of slashes only.
Dirname(path) ==
    LET head == SubSeq(path, 1, RFind(path, "/"))
    IN  IF head # <<>> /\ (\E i \in 1..Len(head) : head[i] # "/")
        THEN RStrip(head, "/")
        ELSE head

\* Mutant: the folder branch is missing.
DestKeyBasenameOnly(key) == Prefix \o Basename(key)

\* Lines 88-92: 'enhanced_' + basename, behind the folder and a '/' when the
\* key contains a '/'.
DestKey(key) ==
    IF \E i \in 1..Len(key) : key[i] = "/"
    THEN Dirname(key) \o <<"/">> \o Prefix \o Basename(key)
    ELSE Prefix \o Basename(key)

\* Line 83: the stripped pieces that are not empty.
ImageKeys(s) ==
    SelectSeq([i \in 1..Len(Split(s)) |-> Strip(Split(s)[i])],
              LAMBDA key : key # <<>>)

\* Lines 79-101: one descriptor per key, with the default buckets.
CommaSeparated(s) ==
    [i \in 1..Len(ImageKeys(s)) |->
        [source_bucket |-> "SOURCE_BUCKET",
         source_key    |-> ImageKeys(s)[i],
         dest_bucket   |-> "DEST_BUCKET",
         dest_key      |-> DestKey(ImageKeys(s)[i])]]

\* parse_image_list(images_config): [] for the empty string; else, the
\* string not being a JSON list, the descriptors of the comma-separated keys.
ParseImageList ==
    /\ parse_result = <<>>
    /\ parse_result' = IF images_config = <<>>
                       THEN << <<>> >>
                       ELSE <<CommaSeparated(images_config)>>
    /\ UNCHANGED images_config
    /\ UNCHANGED <<bvars, wvars, svars>>
    /\ UNCHANGED <<tvars, rvars, staggered>>
    /\ UNCHANGED yvars

\* ------------------------------------------ ImageEnhancer.process_image

\* What a step of process_image can raise: botocore's ClientError (the only
\* one the steps' own except clauses log), any other Exception, or a
\* BaseException such as KeyboardInterrupt.
StepErrors == {"ClientError", "Exception", "KeyboardInterrupt"}

\* `except Exception` of process_image (line 429) and of main() (line 547).
CaughtByProcessImage(e) == e # "KeyboardInterrupt"

\* Where a raising step leaves process_image: its except clause when the
\* exception is an Exception, else the finally clause at once.
AfterRaise(e) == IF CaughtByProcessImage(e) THEN "except" ELSE "finally"

\* No exception is on its way out of process_image.
NoRaise == <<"none", "none">>

\* How process_image ends after its finally clause.
PiExit == IF raising = NoRaise THEN "returned" ELSE "raised"

\* process_image touches nothing of the batch driver or the supervisor.
PiUnchangedOthers == UNCHANGED <<bvars, wvars, svars, xvars, lvars, fvars>>

\* enhancer.process_image(...) is called (lines 374-395).
PiCall ==
    /\ ppc = "idle"
    /\ ppc' = "download"
    /\ UNCHANGED <<pi_original_image_path, pi_enhanced_image_path, disk,
                   raising, cleanup_calls, warned>>
    /\ PiUnchangedOthers

\* Line 400, download_image_from_s3 up to line 163: the temporary file is
\* made with NamedTemporaryFile(delete=False), unless something raises first.
PiDownloadTempFile ==
    /\ ppc = "download"
    /\ \/ /\ disk' = disk \cup {"original"}
          /\ ppc' = "download_file"
          /\ UNCHANGED raising
       \/ \E e \in StepErrors :
             /\ raising' = <<"download", e>>
             /\ ppc' = AfterRaise(e)
             /\ UNCHANGED disk
    /\ UNCHANGED <<pi_original_image_path, pi_enhanced_image_path,
                   cleanup_calls, warned>>
    /\ PiUnchangedOthers

\* download_image_from_s3, lines 168-189: s3_client.download_file returns and
\* the path is returned and assigned (line 400), or it raises; the except
\* clause logs and re-raises, the file stays.
PiDownloadFile ==
    /\ ppc = "download_file"
    /\ \/ /\ pi_original_image_path' = "original"
          /\ ppc' = "enhance"
          /\ UNCHANGED raising
       \/ \E e \in StepErrors :
             /\ raising' = <<"download", e>>
             /\ ppc' = AfterRaise(e)
             /\ UNCHANGED pi_original_image_path
    /\ UNCHANGED <<pi_enhanced_image_path, disk, cleanup_calls, warned>>
    /\ PiUnchangedOthers

\* Line 407, enhance_image_with_openai up to line 226: the temporary file
\* for the enhanced image is made, unless something raises first.
PiEnhanceTempFile ==
    /\ ppc = "enhance"
    /\ \/ /\ disk' = disk \cup {"enhanced"}
          /\ ppc' = "enhance_api"
          /\ UNCHANGED raising
       \/ \E e \in StepErrors :
             /\ raising' = <<"enhance", e>>
             /\ ppc' = AfterRaise(e)
             /\ UNCHANGED disk
    /\ UNCHANGED <<pi_original_image_path, pi_enhanced_image_path,
                   cleanup_calls, warned>>
    /\ PiUnchangedOthers

\* enhance_image_with_openai, lines 247-290: the API call and the write of
\* its result return and the path is returned and assigned (line 407), or
\* something raises; the except clause logs and re-raises, the file stays.
PiEnhanceApi ==
    /\ ppc = "enhance_api"
    /\ \/ /\ pi_enhanced_image_path' = "enhanced"
          /\ ppc' = "upload"
          /\ UNCHANGED raising
       \/ \E e \in StepErrors :
             /\ raising' = <<"enhance", e>>
             /\ ppc' = AfterRaise(e)
             /\ UNCHANGED pi_enhanced_image_path
    /\ UNCHANGED <<pi_original_image_path, disk, cleanup_calls, warned>>
    /\ PiUnchangedOthers

\* Line 414, upload_image_to_s3 (292-345): no temporary file is made.
PiUpload ==
    /\ ppc = "upload"
    /\ \/ /\ ppc' = "finally"
          /\ UNCHANGED raising
       \/ \E e \in StepErrors :
             /\ raising' = <<"upload", e>>
             /\ ppc' = AfterRaise(e)
    /\ UNCHANGED <<pi_original_image_path, pi_enhanced_image_path, disk,
                   cleanup_calls, warned>>
    /\ PiUnchangedOthers

\* Lines 429-434: log the error and re-raise it.
PiExcept ==
    /\ ppc = "except"
    /\ ppc' = "finally"
    /\ UNCHANGED <<pi_original_image_path, pi_enhanced_image_path, disk,
                   raising, cleanup_calls, warned>>
    /\ PiUnchangedOthers

\* Lines 435-438: cleanup_temp_files is called when a path is set.
PiFinally ==
    /\ ppc = "finally"
    /\ IF pi_original_image_path # None \/ pi_enhanced_image_path # None
       THEN /\ cleanup_calls' = cleanup_calls + 1
            /\ ppc' = "clean_original"
       ELSE /\ ppc' = PiExit
            /\ UNCHANGED cleanup_calls
    /\ UNCHANGED <<pi_original_image_path, pi_enhanced_image_path, disk,
                   raising, warned>>
    /\ PiUnchangedOthers

\* One pass of the loop of cleanup_temp_files (354-360) for file_path: for
\* None os.path.exists raises TypeError; an existing file is unlinked or
\* os.unlink raises; a missing file is passed over. Every exception is
\* logged as a warning and the loop goes on.
CleanupTempFile(file_path) ==
    IF file_path = None
    THEN /\ warned' = warned \cup {None}
         /\ UNCHANGED disk
    ELSE IF file_path \in disk
    THEN \/ /\ disk' = disk \ {file_path}
            /\ UNCHANGED warned
         \/ /\ warned' = warned \cup {file_path}
            /\ UNCHANGED disk
    ELSE UNCHANGED <<disk, warned>>

PiCleanOriginal ==
    /\ ppc = "clean_original"
    /\ CleanupTempFile(pi_original_image_path)
    /\ ppc' = "clean_enhanced"
    /\ UNCHANGED <<pi_original_image_path, pi_enhanced_image_path, raising,
                   cleanup_calls>>
    /\ PiUnchangedOthers

PiCleanEnhanced ==
    /\ ppc = "clean_enhanced"
    /\ CleanupTempFile(pi_enhanced_image_path)
    /\ ppc' = PiExit
    /\ UNCHANGED <<pi_original_image_path, pi_enhanced_image_path, raising,
                   cleanup_calls>>
    /\ PiUnchangedOthers

\* main(), lines 524-549, after process_image: 0 when it returned, 1 when
\* it raised an Exception; a BaseException leaves main() as it is.
PiMainEnds ==
    /\ ppc \in {"returned", "raised"}
    /\ ppc' = IF ppc = "returned" THEN "exit_0"
              ELSE IF CaughtByProcessImage(raising[2]) THEN "exit_1"
              ELSE "interrupted"
    /\ UNCHANGED <<pi_original_image_path, pi_enhanced_image_path, disk,
                   raising, cleanup_calls, warned>>
    /\ PiUnchangedOthers

\* --------------------------------------------------- the worker supervisor

\* Mutant: stop_workers terminates without polling first.
StillRunningUnchecked(p) == TRUE

\* process.poll() is None: the process is still running.
StillRunning(p) == alive[p]

\* Mutant: only a non-zero return code counts as a death to restart.
HasCrashed(p) == ~alive[p] /\ exitcode[p] # 0

\* Mutant: only the processes start_workers launched are restarted, so a
\* slot is restarted once and then left dead.
HasTerminatedOnce(p) == ~alive[p] /\ p <= num_workers

\* Mutant: the monitor also restarts the first worker while it runs.
HasTerminatedOrFirst(p) == ~alive[p] \/ p = 1

\* process.poll() is not None, the monitor's test for a dead worker.
HasTerminated(p) == ~alive[p]

\* open(log_filename, 'w'): a new open sink, numbered opened + 1.
OpenSink == [sinkOpen EXCEPT ![opened + 1] = TRUE]

\* subprocess.Popen([...worker.py]): a new running process, numbered
\* launched + 1.
Launch == [alive EXCEPT ![launched + 1] = TRUE]

\* Mutant: the process is not killed after the grace period.
ForceKillMissing(p) == alive

\* process.kill(); process.wait(): SIGKILL ends the process and wait reaps it.
ForceKill(p) == [alive EXCEPT ![p] = FALSE]

\* Where a loop over `n` items goes after item idx: the next item, or `after`.
LoopNext(n, again, after) == IF idx < n THEN again ELSE after

\* main() installs the signal handlers, builds the manager and calls
\* start_workers.
MainStart ==
    /\ spc = "idle"
    /\ spc' = "start_open"
    /\ idx' = 1
    /\ UNCHANGED <<num_workers, processes, log_files, new_process, launched,
                   opened, alive, exitcode, sinkOpen, termSent, killSent,
                   sleepsSinceExit, crashes, stopCalls, firstStop>>
    /\ UNCHANGED <<bvars, wvars>>
    /\ UNCHANGED xvars
    /\ UNCHANGED yvars

\* start_workers, lines 31-37: open the slot's log file and append it.
StartOpenLog ==
    /\ spc = "start_open"
    /\ sinkOpen' = OpenSink
    /\ opened' = opened + 1
    /\ log_files' = Append(log_files, opened + 1)
    /\ spc' = "start_popen"
    /\ UNCHANGED <<num_workers, idx, processes, new_process, launched, alive,
                   exitcode, termSent, killSent, sleepsSinceExit, crashes,
                   stopCalls, firstStop>>
    /\ UNCHANGED <<bvars, wvars>>
    /\ UNCHANGED xvars
    /\ UNCHANGED yvars

\* start_workers, lines 78-101: launch the worker process.
StartLaunch ==
    /\ spc = "start_popen"
    /\ alive' = Launch
    /\ launched' = launched + 1
    /\ new_process' = launched + 1
    /\ spc' = "start_append"
    /\ UNCHANGED <<num_workers, idx, processes, log_files, opened, exitcode,
                   sinkOpen, termSent, killSent, sleepsSinceExit, crashes,
                   stopCalls, firstStop>>
    /\ UNCHANGED <<bvars, wvars>>
    /\ UNCHANGED xvars
    /\ UNCHANGED yvars

\* Mutant: the wait also follows the last worker.
StaggerNeededAlways(worker_id) == worker_id <= num_workers

\* `if worker_id < self.num_workers:`: no wait after the last worker.
StaggerNeeded(worker_id) == worker_id < num_workers

\* start_workers, lines 103-107: append the process; then the stagger wait,
\* or the next worker, or (after the last one) main() calls monitor_workers.
StartAppend ==
    /\ spc = "start_append"
    /\ processes' = Append(processes, new_process)
    /\ new_process' = 0
    /\ IF StaggerNeeded(idx)
       THEN /\ spc' = "start_sleep"
            /\ UNCHANGED idx
       ELSE /\ spc' = LoopNext(num_workers, "start_open", "mon_poll")
            /\ idx' = LoopNext(num_workers, idx + 1, 1)
    /\ UNCHANGED <<num_workers, log_files, launched, opened, alive, exitcode,
                   sinkOpen, termSent, killSent, sleepsSinceExit, crashes,
                   stopCalls, firstStop>>
    /\ UNCHANGED <<bvars, wvars>>
    /\ UNCHANGED xvars
    /\ UNCHANGED yvars

\* start_workers, lines 108-109: time.sleep(self.stagger_start), then the
\* next pass of the loop.
StartSleep ==
    /\ spc = "start_sleep"
    /\ staggered' = staggered + 1
    /\ spc' = LoopNext(num_workers, "start_open", "mon_poll")
    /\ idx' = LoopNext(num_workers, idx + 1, 1)
    /\ UNCHANGED <<num_workers, processes, log_files, new_process, launched,
                   opened, alive, exitcode, sinkOpen, termSent, killSent,
                   sleepsSinceExit, crashes, stopCalls, firstStop>>
    /\ UNCHANGED <<bvars, wvars>>
    /\ UNCHANGED <<tvars, rvars, pvars>>
    /\ UNCHANGED yvars

\* monitor_workers, lines 145-146: poll slot idx; a live process is passed
\* over, a terminated one is restarted. After the last slot the loop sleeps.
MonitorPoll ==
    /\ spc = "mon_poll"
    /\ IF HasTerminated(processes[idx])
       THEN /\ spc' = "mon_close"
            /\ UNCHANGED idx
       ELSE /\ spc' = LoopNext(num_workers, "mon_poll", "mon_sleep")
            /\ idx' = LoopNext(num_workers, idx + 1, 1)
    /\ UNCHANGED <<num_workers, processes, log_files, new_process, launched,
                   opened, alive, exitcode, sinkOpen, termSent, killSent,
                   sleepsSinceExit, crashes, stopCalls, firstStop>>
    /\ UNCHANGED <<bvars, wvars>>
    /\ UNCHANGED xvars
    /\ UNCHANGED yvars

\* Mutant: the dead worker's log file is left open.
CloseOldLogMissing(i) == sinkOpen

\* Mutant: every slot's log file is closed when one worker has died.
CloseOldLogOfAll(i) ==
    [k \in Pids |-> IF \E s \in 1..Len(log_files) : log_files[s] = k
                    THEN FALSE ELSE sinkOpen[k]]

\* self.log_files[i].close(): the sink slot i holds is closed.
CloseOldLog(i) == [sinkOpen EXCEPT ![log_files[i]] = FALSE]

\* monitor_workers, line 151: close the dead worker's log file.
MonitorCloseLog ==
    /\ spc = "mon_close"
    /\ sinkOpen' = CloseOldLog(idx)
    /\ spc' = "mon_open"
    /\ UNCHANGED <<num_workers, idx, processes, log_files, new_process,
                   launched, opened, alive, exitcode, termSent, killSent,
                   sleepsSinceExit, crashes, stopCalls, firstStop>>
    /\ UNCHANGED <<bvars, wvars>>
    /\ UNCHANGED xvars
    /\ UNCHANGED yvars

\* monitor_workers, lines 154-158: open a new log file into the slot.
MonitorOpenLog ==
    /\ spc = "mon_open"
    /\ sinkOpen' = OpenSink
    /\ opened' = opened + 1
    /\ log_files' = [log_files EXCEPT ![idx] = opened + 1]
    /\ spc' = "mon_popen"
    /\ UNCHANGED <<num_workers, idx, processes, new_process, launched, alive,
                   exitcode, termSent, killSent, sleepsSinceExit, crashes,
                   stopCalls, firstStop>>
    /\ UNCHANGED <<bvars, wvars>>
    /\ UNCHANGED xvars
    /\ UNCHANGED yvars

\* monitor_workers, lines 197-219: launch the replacement.
MonitorLaunch ==
    /\ spc = "mon_popen"
    /\ alive' = Launch
    /\ launched' = launched + 1
    /\ new_process' = launched + 1
    /\ spc' = "mon_store"
    /\ UNCHANGED <<num_workers, idx, processes, log_files, opened, exitcode,
                   sinkOpen, termSent, killSent, sleepsSinceExit, crashes,
                   stopCalls, firstStop>>
    /\ UNCHANGED <<bvars, wvars>>
    /\ UNCHANGED xvars
    /\ UNCHANGED yvars

\* monitor_workers, lines 221-222: store the replacement in the slot and go
\* on with the next slot.
MonitorStore ==
    /\ spc = "mon_store"
    /\ processes' = [processes EXCEPT ![idx] = new_process]
    /\ new_process' = 0
    /\ spc' = LoopNext(num_workers, "mon_poll", "mon_sleep")
    /\ idx' = LoopNext(num_workers, idx + 1, 1)
    /\ UNCHANGED <<num_workers, log_files, launched, opened, alive, exitcode,
                   sinkOpen, termSent, killSent, sleepsSinceExit, crashes,
                   stopCalls, firstStop>>
    /\ UNCHANGED <<bvars, wvars>>
    /\ UNCHANGED xvars
    /\ UNCHANGED yvars

\* monitor_workers, line 226: time.sleep(2), then the next pass.
MonitorSleep ==
    /\ spc = "mon_sleep"
    /\ sleepsSinceExit' =
         [p \in Pids |-> IF /\ \E i \in 1..Len(processes) : processes[i] = p
                            /\ ~alive[p]
                            /\ sleepsSinceExit[p] < SleepsCounted
                         THEN sleepsSinceExit[p] + 1
                         ELSE sleepsSinceExit[p]]
    /\ spc' = "mon_poll"
    /\ idx' = 1
    /\ UNCHANGED <<num_workers, processes, log_files, new_process, launched,
                   opened, alive, exitcode, sinkOpen, termSent, killSent,
                   crashes, stopCalls, firstStop>>
    /\ UNCHANGED <<bvars, wvars>>
    /\ UNCHANGED xvars
    /\ UNCHANGED yvars

\* A worker process exits on its own (a crash, or worker.py's main returning),
\* with any return code.
ProcessExits(p, code) ==
    /\ p <= launched
    /\ alive[p]
    /\ crashes < MaxCrashes
    /\ crashes' = crashes + 1
    /\ alive' = [alive EXCEPT ![p] = FALSE]
    /\ exitcode' = [exitcode EXCEPT ![p] = code]
    /\ UNCHANGED <<num_workers, spc, idx, processes, log_files, new_process,
                   launched, opened, sinkOpen, termSent, killSent,
                   sleepsSinceExit, stopCalls, firstStop>>
    /\ UNCHANGED <<bvars, wvars>>
    /\ UNCHANGED xvars
    /\ UNCHANGED yvars

\* TeeOutput(log_file, ...).file of the thread that forwards process p: the
\* sink opened just before p was launched (lines 36 and 76, 157 and 195).
\* Sinks and processes are numbered in the order they were opened and
\* launched, and every launch follows one open.
TeeFile(p) == p

\* With show_logs, a running worker prints a line into its stdout pipe.
WorkerPrints(p) ==
    /\ show_logs
    /\ p <= launched
    /\ alive[p]
    /\ piped[p] < MaxPiped
    /\ piped' = [piped EXCEPT ![p] = @ + 1]
    /\ UNCHANGED <<show_logs, late_writes>>
    /\ UNCHANGED <<bvars, wvars, svars, xvars, fvars, ovars>>

\* handle_output, lines 88-90 and 206-208: the daemon thread of process p
\* takes the next line of proc.stdout and calls tee_out.write, whose first
\* statement is self.file.write(data); on a closed file that raises
\* ValueError, which ends the thread.
HandleOutput(p) ==
    /\ show_logs
    /\ p \notin late_writes
    /\ piped[p] > 0
    /\ piped' = [piped EXCEPT ![p] = @ - 1]
    /\ late_writes' = IF sinkOpen[TeeFile(p)]
                      THEN late_writes
                      ELSE late_writes \cup {p}
    /\ UNCHANGED show_logs
    /\ UNCHANGED <<bvars, wvars, svars, xvars, fvars, ovars>>

StartPositions == {"start_open", "start_popen", "start_append", "start_sleep"}
MonitorPositions == {"mon_poll", "mon_close", "mon_open", "mon_popen",
                     "mon_store", "mon_sleep"}
StopPositions == {"stop_poll", "stop_wait", "stop_kill", "stop_close"}

\* Where stop_workers begins: its first loop, or its second when no process
\* is held, or its end when nothing is held at all.
StopEntry ==
    IF processes # <<>> THEN "stop_poll"
    ELSE IF log_files # <<>> THEN "stop_close"
    ELSE "stopped"

\* After slot idx of stop_workers' first loop.
StopNextPc == IF idx < Len(processes) THEN "stop_poll"
              ELSE IF log_files # <<>> THEN "stop_close"
              ELSE "stopped"
StopNextIdx == IF idx < Len(processes) THEN idx + 1 ELSE 1

\* What stop_workers leaves behind: the pool's processes and sinks, and the
\* signals sent so far.
SupervisorState ==
    [processes |-> processes,
     log_files |-> log_files,
     alive     |-> [i \in 1..Len(processes) |-> alive[processes[i]]],
     sinks     |-> [i \in 1..Len(log_files) |-> sinkOpen[log_files[i]]],
     termSent  |-> termSent,
     killSent  |-> killSent]

\* Bookkeeping: when the first stop_workers call returns, what it left is
\* kept for comparison with later calls.
RecordFirstStop ==
    firstStop' = IF spc' = "stopped" /\ stopCalls' = 1
                 THEN <<SupervisorState'>>
                 ELSE firstStop

\* SIGINT or SIGTERM reaches the supervisor while start_workers or
\* monitor_workers runs: signal_handler raises SystemExit, main() catches it
\* and its finally clause calls stop_workers.
SignalBeforeStop ==
    /\ spc \in StartPositions \cup MonitorPositions
    /\ spc' = StopEntry
    /\ idx' = 1
    /\ stopCalls' = stopCalls + 1
    /\ UNCHANGED <<num_workers, processes, log_files, new_process, launched,
                   opened, alive, exitcode, sinkOpen, termSent, killSent,
                   sleepsSinceExit, crashes>>
    /\ RecordFirstStop
    /\ UNCHANGED <<bvars, wvars>>
    /\ UNCHANGED xvars
    /\ UNCHANGED yvars

\* A signal arrives while stop_workers runs in the finally clause: SystemExit
\* leaves stop_workers and main() unfinished.
SignalDuringStop ==
    /\ spc \in StopPositions
    /\ spc' = "aborted"
    /\ UNCHANGED <<num_workers, idx, processes, log_files, new_process,
                   launched, opened, alive, exitcode, sinkOpen, termSent,
                   killSent, sleepsSinceExit, crashes, stopCalls, firstStop>>
    /\ UNCHANGED <<bvars, wvars>>
    /\ UNCHANGED xvars
    /\ UNCHANGED yvars

\* stop_workers, lines 115-119 and 129-130: a running process is sent
\* terminate(); one that already stopped is passed over.
StopPoll ==
    /\ spc = "stop_poll"
    /\ IF StillRunning(processes[idx])
       THEN /\ termSent' = [termSent EXCEPT ![processes[idx]] = @ + 1]
            /\ spc' = "stop_wait"
            /\ UNCHANGED idx
       ELSE /\ spc' = StopNextPc
            /\ idx' = StopNextIdx
            /\ UNCHANGED termSent
    /\ UNCHANGED <<num_workers, processes, log_files, new_process, launched,
                   opened, alive, exitcode, sinkOpen, killSent,
                   sleepsSinceExit, crashes, stopCalls>>
    /\ RecordFirstStop
    /\ UNCHANGED <<bvars, wvars>>
    /\ UNCHANGED xvars
    /\ UNCHANGED yvars

\* Mutant: the wait is taken to have timed out whether or not the process
\* is still running.
GraceExpiredAlways(p) == TRUE

\* process.wait(timeout=5) raises TimeoutExpired: the process is still
\* running when the 5 seconds are over.
GraceExpired(p) == alive[p]

\* stop_workers, lines 122-126: process.wait(timeout=5) returns because the
\* process has exited or exits within the grace period, or raises
\* TimeoutExpired.
StopWait ==
    /\ spc = "stop_wait"
    /\ \/ /\ ~alive[processes[idx]]
          /\ UNCHANGED <<alive, exitcode>>
          /\ spc' = StopNextPc
          /\ idx' = StopNextIdx
       \/ /\ alive[processes[idx]]
          /\ alive' = [alive EXCEPT ![processes[idx]] = FALSE]
          /\ exitcode' = [exitcode EXCEPT ![processes[idx]] = -SIGTERM]
          /\ spc' = StopNextPc
          /\ idx' = StopNextIdx
       \/ /\ GraceExpired(processes[idx])
          /\ UNCHANGED <<alive, exitcode, idx>>
          /\ spc' = "stop_kill"
    /\ UNCHANGED <<num_workers, processes, log_files, new_process, launched,
                   opened, sinkOpen, termSent, killSent, sleepsSinceExit,
                   crashes, stopCalls>>
    /\ RecordFirstStop
    /\ UNCHANGED <<bvars, wvars>>
    /\ UNCHANGED xvars
    /\ UNCHANGED yvars

\* stop_workers, lines 127-128: kill() and wait().
StopKill ==
    /\ spc = "stop_kill"
    /\ killSent' = [killSent EXCEPT ![processes[idx]] = @ + 1]
    /\ alive' = ForceKill(processes[idx])
    /\ exitcode' = IF alive[processes[idx]]
                   THEN [exitcode EXCEPT ![processes[idx]] = -SIGKILL]
                   ELSE exitcode
    /\ spc' = StopNextPc
    /\ idx' = StopNextIdx
    /\ UNCHANGED <<num_workers, processes, log_files, new_process, launched,
                   opened, sinkOpen, termSent, sleepsSinceExit, crashes,
                   stopCalls>>
    /\ RecordFirstStop
    /\ UNCHANGED <<bvars, wvars>>
    /\ UNCHANGED xvars
    /\ UNCHANGED yvars

\* stop_workers, lines 133-136: close log file idx; after the last one
\* stop_workers returns.
StopCloseLog ==
    /\ spc = "stop_close"
    /\ sinkOpen' = [sinkOpen EXCEPT ![log_files[idx]] = FALSE]
    /\ spc' = IF idx < Len(log_files) THEN "stop_close" ELSE "stopped"
    /\ idx' = IF idx < Len(log_files) THEN idx + 1 ELSE 1
    /\ UNCHANGED <<num_workers, processes, log_files, new_process, launched,
                   opened, alive, exitcode, termSent, killSent,
                   sleepsSinceExit, crashes, stopCalls>>
    /\ RecordFirstStop
    /\ UNCHANGED <<bvars, wvars>>
    /\ UNCHANGED xvars
    /\ UNCHANGED yvars

\* stop_workers is called again on the manager after it has returned.
StopAgain ==
    /\ spc = "stopped"
    /\ stopCalls < MaxStopCalls
    /\ stopCalls' = stopCalls + 1
    /\ spc' = StopEntry
    /\ idx' = 1
    /\ UNCHANGED <<num_workers, processes, log_files, new_process, launched,
                   opened, alive, exitcode, sinkOpen, termSent, killSent,
                   sleepsSinceExit, crashes, firstStop>>
    /\ UNCHANGED <<bvars, wvars>>
    /\ UNCHANGED xvars
    /\ UNCHANGED yvars

\* WorkerManager.__init__: nothing launched, nothing opened.
SupervisorFresh ==
    /\ spc = "idle"
    /\ idx = 1
    /\ processes = <<>>
    /\ log_files = <<>>
    /\ new_process = 0
    /\ launched = 0
    /\ opened = 0
    /\ alive = [p \in Pids |-> FALSE]
    /\ exitcode = [p \in Pids |-> 0]
    /\ sinkOpen = [k \in Pids |-> FALSE]
    /\ termSent = [p \in Pids |-> 0]
    /\ killSent = [p \in Pids |-> 0]
    /\ sleepsSinceExit = [p \in Pids |-> 0]
    /\ crashes = 0
    /\ stopCalls = 0
    /\ firstStop = <<>>
    /\ staggered = 0

\* The supervisor before main() has run, one worker configured.
SupervisorAtRest ==
    /\ num_workers = 1
    /\ SupervisorFresh

\* The batch driver before run_batch_image_workflows is called.
BatchAtRest ==
    /\ images = <<>>
    /\ bpc = "init"
    /\ sem = 0
    /\ waiters = <<>>
    /\ woken = {}
    /\ tpc = [j \in Jobs |-> "none"]
    /\ results = [j \in Jobs |-> NoResult]
    /\ completed_count = 0
    /\ started = [j \in Jobs |-> 0]
    /\ successful = 0
    /\ failed = 0
    /\ exit_code = <<>>
    /\ wpc = [j \in Jobs |-> "none"]
    /\ attempt = [j \in Jobs |-> 0]
    /\ original_image_path = [j \in Jobs |-> None]
    /\ enhanced_image_path = [j \in Jobs |-> None]
    /\ pending = [j \in Jobs |-> "none"]
    /\ wfError = [j \in Jobs |-> NoError]
    /\ cleaned = [j \in Jobs |-> <<>>]
    /\ steps_ok = [j \in Jobs |-> {}]
    /\ cancelled_at = [j \in Jobs |-> "none"]
    /\ retry_wait = [j \in Jobs |-> 0]
    /\ invoked = [j \in Jobs |-> <<>>]
    /\ run = 1
    /\ workflow_ids = {}
    /\ returned = <<>>

\* WorkerManager(show_logs=False): no pipe, no forwarding thread.
LogsAtRest ==
    /\ show_logs = FALSE
    /\ piped = [p \in Pids |-> 0]
    /\ late_writes = {}

\* No attempt has run; in this run an attempt that fails does so before it
\* has created its temporary file.
FilesAtRest ==
    /\ fail_points = {"before_tempfile"}
    /\ orphans = [j \in Jobs |-> 0]

\* process_image has not been called.
StandaloneAtRest ==
    /\ ppc = "idle"
    /\ pi_original_image_path = None
    /\ pi_enhanced_image_path = None
    /\ disk = {}
    /\ raising = NoRaise
    /\ cleanup_calls = 0
    /\ warned = {}

\* parse_image_list has not been called.
ParserAtRest ==
    /\ images_config = <<>>
    /\ parse_result = <<>>

\* Every attempt of a main activity can return, raise or time out.
AnyOutcome == [n \in 1..MaximumAttempts |-> Outcomes]

\* A batch run: any max_concurrent from -1 up, any parsed list of descriptors.
Init ==
    /\ max_concurrent \in -1..MaxConcurrent
    /\ parsed \in SeqsUpTo(Descriptors, MaxJobs)
    /\ cleanup_outcomes = Outcomes
    /\ step_outcomes = AnyOutcome
    /\ ParserAtRest
    /\ LogsAtRest
    /\ FilesAtRest
    /\ StandaloneAtRest
    /\ BatchAtRest
    /\ SupervisorAtRest

vars == <<bvars, wvars, svars, xvars, yvars>>

Next ==
    \/ Connect
    \/ CreateTasks
    \/ GatherDone
    \/ MainReturn
    \/ \E j \in Jobs : TaskStart(j)
    \/ \E j \in Jobs : WakeUp(j)
    \/ \E j \in Jobs : StartWorkflowOk(j)
    \/ \E j \in Jobs : StartWorkflowFails(j)
    \/ \E j \in Jobs : ResultArrives(j)
    \/ \E j \in Jobs : StepSucceeds(j)
    \/ \E j \in Jobs : StepFailsRetry(j)
    \/ \E j \in Jobs : StepFailsTerminal(j)
    \/ \E j \in Jobs : CleanupOriginal(j)
    \/ \E j \in Jobs : CleanupEnhanced(j)

Spec == Init /\ [][Next]_vars

\* The same batch run on workers where no temporary file can be removed:
\* every cleanup attempt raises or times out.
InitCleanupFails ==
    /\ max_concurrent \in -1..MaxConcurrent
    /\ parsed \in SeqsUpTo(Descriptors, MaxJobs)
    /\ cleanup_outcomes = Outcomes \ {"ok"}
    /\ step_outcomes = AnyOutcome
    /\ ParserAtRest
    /\ LogsAtRest
    /\ FilesAtRest
    /\ StandaloneAtRest
    /\ BatchAtRest
    /\ SupervisorAtRest

SpecCleanupFails == InitCleanupFails /\ [][Next]_vars

\* A batch run with a limit of at least 1, and then run a second time.
InitRerun ==
    /\ max_concurrent \in 1..MaxConcurrent
    /\ parsed \in SeqsUpTo(Descriptors, MaxRerunJobs)
    /\ cleanup_outcomes = Outcomes
    /\ step_outcomes = AnyOutcome
    /\ ParserAtRest
    /\ LogsAtRest
    /\ FilesAtRest
    /\ StandaloneAtRest
    /\ BatchAtRest
    /\ SupervisorAtRest

NextRerun ==
    \/ Connect
    \/ CreateTasks
    \/ GatherDone
    \/ MainReturn
    \/ RunAgain
    \/ \E j \in Jobs : TaskStart(j)
    \/ \E j \in Jobs : WakeUp(j)
    \/ \E j \in Jobs : StartWorkflowOk(j)
    \/ \E j \in Jobs : StartWorkflowFails(j)
    \/ \E j \in Jobs : ResultArrives(j)
    \/ \E j \in Jobs : StepSucceeds(j)
    \/ \E j \in Jobs : StepFailsRetry(j)
    \/ \E j \in Jobs : StepFailsTerminal(j)
    \/ \E j \in Jobs : CleanupOriginal(j)
    \/ \E j \in Jobs : CleanupEnhanced(j)

SpecRerun == InitRerun /\ [][NextRerun]_vars

\* The first attempt of every main activity exceeds its
\* start_to_close_timeout; later attempts can end in any way.
FirstTimesOut ==
    [n \in 1..MaximumAttempts |-> IF n = 1 THEN {"timeout"} ELSE Outcomes]

\* Every attempt of a main activity but the last the policy allows fails.
OnlyLastCanReturn ==
    [n \in 1..MaximumAttempts |->
        IF n < MaximumAttempts THEN {"error", "timeout"} ELSE Outcomes]

\* A batch of well-formed descriptors run with a limit of at least 1 while
\* the external services are slow or failing at first.
InitRetry ==
    /\ max_concurrent \in 1..MaxConcurrent
    /\ parsed \in SeqsUpTo({"complete"}, MaxRetryJobs)
    /\ cleanup_outcomes = Outcomes
    /\ step_outcomes \in {FirstTimesOut, OnlyLastCanReturn}
    /\ ParserAtRest
    /\ LogsAtRest
    /\ FilesAtRest
    /\ StandaloneAtRest
    /\ BatchAtRest
    /\ SupervisorAtRest

SpecRetry == InitRetry /\ [][Next]_vars

\* A batch of well-formed descriptors in which a failing attempt can fail
\* before or after it has created its temporary file.
InitFiles ==
    /\ max_concurrent \in 1..MaxConcurrent
    /\ parsed \in SeqsUpTo({"complete"}, MaxFileJobs)
    /\ cleanup_outcomes = Outcomes
    /\ step_outcomes = AnyOutcome
    /\ ParserAtRest
    /\ LogsAtRest
    /\ fail_points = {"before_tempfile", "after_tempfile"}
    /\ orphans = [j \in Jobs |-> 0]
    /\ StandaloneAtRest
    /\ BatchAtRest
    /\ SupervisorAtRest

SpecFiles == InitFiles /\ [][Next]_vars

\* A non-empty batch run with a limit of at least 1.
InitLive ==
    /\ max_concurrent \in 1..MaxConcurrent
    /\ parsed \in {s \in SeqsUpTo(Descriptors, MaxLiveJobs) : s # <<>>}
    /\ cleanup_outcomes = Outcomes
    /\ step_outcomes = AnyOutcome
    /\ ParserAtRest
    /\ LogsAtRest
    /\ FilesAtRest
    /\ StandaloneAtRest
    /\ BatchAtRest
    /\ SupervisorAtRest

\* A step of the event loop that runs run_batch_image_workflows and its
\* tasks, for task j: the task starts, resumes with its permit, has its
\* start_workflow call answered, or receives the result of its execution.
TaskStep(j) ==
    \/ TaskStart(j)
    \/ WakeUp(j)
    \/ StartWorkflowOk(j)
    \/ StartWorkflowFails(j)
    \/ ResultArrives(j)

\* A step of workflow execution j: an attempt of the activity it awaits
\* ends.
WorkflowStep(j) ==
    \/ StepSucceeds(j)
    \/ StepFailsRetry(j)
    \/ StepFailsTerminal(j)
    \/ CleanupOriginal(j)
    \/ CleanupEnhanced(j)

\* A step of run_batch_image_workflows and main() themselves.
DriverStep == Connect \/ CreateTasks \/ GatherDone \/ MainReturn

\* The event loop runs every task that is ready, the server answers every
\* call, and every workflow execution goes on until it returns or fails.
SpecLive ==
    /\ InitLive
    /\ [][Next]_vars
    /\ WF_vars(DriverStep)
    /\ \A j \in Jobs : WF_vars(TaskStep(j))
    /\ \A j \in Jobs : WF_vars(WorkflowStep(j))

\* One call of the standalone ImageEnhancer.process_image; no batch and no
\* supervisor is running.
InitOriginal ==
    /\ max_concurrent = 1
    /\ parsed = <<>>
    /\ cleanup_outcomes = Outcomes
    /\ step_outcomes = AnyOutcome
    /\ ParserAtRest
    /\ LogsAtRest
    /\ FilesAtRest
    /\ StandaloneAtRest
    /\ BatchAtRest
    /\ SupervisorAtRest

NextOriginal ==
    \/ PiCall
    \/ PiDownloadTempFile
    \/ PiDownloadFile
    \/ PiEnhanceTempFile
    \/ PiEnhanceApi
    \/ PiUpload
    \/ PiExcept
    \/ PiFinally
    \/ PiCleanOriginal
    \/ PiCleanEnhanced
    \/ PiMainEnds

SpecOriginal == InitOriginal /\ [][NextOriginal]_vars

\* parse_image_list called on any string over Chars; no batch is running.
InitParse ==
    /\ images_config \in SeqsUpTo(Chars, MaxChars)
    /\ parse_result = <<>>
    /\ LogsAtRest
    /\ FilesAtRest
    /\ StandaloneAtRest
    /\ max_concurrent = 1
    /\ parsed = <<>>
    /\ cleanup_outcomes = Outcomes
    /\ step_outcomes = AnyOutcome
    /\ BatchAtRest
    /\ SupervisorAtRest

SpecParse == InitParse /\ [][ParseImageList]_vars

\* A batch of well-formed descriptors run with a limit of at least 1.
InitCancel ==
    /\ max_concurrent \in 1..MaxConcurrent
    /\ parsed \in SeqsUpTo({"complete"}, MaxCancelJobs)
    /\ cleanup_outcomes = Outcomes
    /\ step_outcomes = AnyOutcome
    /\ ParserAtRest
    /\ LogsAtRest
    /\ FilesAtRest
    /\ StandaloneAtRest
    /\ BatchAtRest
    /\ SupervisorAtRest

\* A batch run during which workflows may be cancelled from outside.
NextCancel ==
    \/ Connect
    \/ CreateTasks
    \/ GatherDone
    \/ MainReturn
    \/ \E j \in Jobs : TaskStart(j)
    \/ \E j \in Jobs : WakeUp(j)
    \/ \E j \in Jobs : StartWorkflowOk(j)
    \/ \E j \in Jobs : StartWorkflowFails(j)
    \/ \E j \in Jobs : ResultArrives(j)
    \/ \E j \in Jobs : StepSucceeds(j)
    \/ \E j \in Jobs : StepFailsRetry(j)
    \/ \E j \in Jobs : StepFailsTerminal(j)
    \/ \E j \in Jobs : CleanupOriginal(j)
    \/ \E j \in Jobs : CleanupEnhanced(j)
    \/ \E j \in Jobs : CancelWorkflow(j)

SpecCancel == InitCancel /\ [][NextCancel]_vars

\* A batch run during which the batch run itself may be cancelled as well.
NextBatchCancel ==
    \/ Connect
    \/ CreateTasks
    \/ GatherDone
    \/ MainReturn
    \/ CancelBatch
    \/ \E j \in Jobs : TaskStart(j)
    \/ \E j \in Jobs : WakeUp(j)
    \/ \E j \in Jobs : StartWorkflowOk(j)
    \/ \E j \in Jobs : StartWorkflowFails(j)
    \/ \E j \in Jobs : ResultArrives(j)
    \/ \E j \in Jobs : StepSucceeds(j)
    \/ \E j \in Jobs : StepFailsRetry(j)
    \/ \E j \in Jobs : StepFailsTerminal(j)
    \/ \E j \in Jobs : CleanupOriginal(j)
    \/ \E j \in Jobs : CleanupEnhanced(j)
    \/ \E j \in Jobs : CancelWorkflow(j)

SpecBatchCancel == InitCancel /\ [][NextBatchCancel]_vars

\* A supervisor run: any pool size from 1 up; no batch is running.
SupInit ==
    /\ max_concurrent = 1
    /\ parsed = <<>>
    /\ cleanup_outcomes = Outcomes
    /\ step_outcomes = AnyOutcome
    /\ ParserAtRest
    /\ LogsAtRest
    /\ FilesAtRest
    /\ StandaloneAtRest
    /\ BatchAtRest
    /\ num_workers \in 1..MaxWorkers
    /\ SupervisorFresh

SupNext ==
    \/ MainStart
    \/ StartOpenLog
    \/ StartLaunch
    \/ StartAppend
    \/ StartSleep
    \/ MonitorPoll
    \/ MonitorCloseLog
    \/ MonitorOpenLog
    \/ MonitorLaunch
    \/ MonitorStore
    \/ MonitorSleep
    \/ \E p \in Pids, code \in {0, 1} : ProcessExits(p, code)
    \/ SignalBeforeStop
    \/ SignalDuringStop
    \/ StopPoll
    \/ StopWait
    \/ StopKill
    \/ StopCloseLog
    \/ StopAgain

SpecSup == SupInit /\ [][SupNext]_vars

\* A supervisor run with --show-logs: every worker writes into a pipe that
\* a thread of the supervisor forwards to the log file and to stdout.
SupLogsInit ==
    /\ max_concurrent = 1
    /\ parsed = <<>>
    /\ cleanup_outcomes = Outcomes
    /\ step_outcomes = AnyOutcome
    /\ ParserAtRest
    /\ show_logs = TRUE
    /\ piped = [p \in Pids |-> 0]
    /\ late_writes = {}
    /\ FilesAtRest
    /\ StandaloneAtRest
    /\ BatchAtRest
    /\ num_workers \in 1..MaxWorkers
    /\ SupervisorFresh

SupLogsNext ==
    \/ MainStart
    \/ StartOpenLog
    \/ StartLaunch
    \/ StartAppend
    \/ StartSleep
    \/ MonitorPoll
    \/ MonitorCloseLog
    \/ MonitorOpenLog
    \/ MonitorLaunch
    \/ MonitorStore
    \/ MonitorSleep
    \/ \E p \in Pids, code \in {0, 1} : ProcessExits(p, code)
    \/ \E p \in Pids : WorkerPrints(p)
    \/ \E p \in Pids : HandleOutput(p)
    \/ SignalBeforeStop
    \/ SignalDuringStop
    \/ StopPoll
    \/ StopWait
    \/ StopKill
    \/ StopCloseLog
    \/ StopAgain

SpecSupLogs == SupLogsInit /\ [][SupLogsNext]_vars

\* One step of the `while True` loop of monitor_workers.
MonitorStep ==
    \/ MonitorPoll
    \/ MonitorCloseLog
    \/ MonitorOpenLog
    \/ MonitorLaunch
    \/ MonitorStore
    \/ MonitorSleep

\* The supervisor from main() up to the shutdown request: start_workers,
\* monitor_workers, and the signal that ends them.
UntilShutdown ==
    \/ MainStart
    \/ StartOpenLog
    \/ StartLaunch
    \/ StartAppend
    \/ StartSleep
    \/ MonitorPoll
    \/ MonitorCloseLog
    \/ MonitorOpenLog
    \/ MonitorLaunch
    \/ MonitorStore
    \/ MonitorSleep
    \/ \E p \in Pids, code \in {0, 1} : ProcessExits(p, code)
    \/ SignalBeforeStop

\* The supervisor's thread keeps running: open, Popen and poll return and
\* time.sleep(2) ends, so the monitor loop always takes its next step.
SpecSupLive == SupInit /\ [][UntilShutdown]_vars /\ WF_vars(MonitorStep)

\* ===================================================== claims under SpecSup

Monitoring == spc \in MonitorPositions

\* The slots whose process is not running.
DeadSlots == {i \in 1..Len(processes) : ~alive[processes[i]]}

\* C7: while monitor_workers runs there is one process per slot, a process
\* that exited stays in its slot for at most one sleep of the poll loop
\* before the pass that replaces it, and when a pass ends every slot whose
\* process was found exited holds its replacement (the only processes not
\* running then exited after the pass polled or launched them).
C7_RestartWithinOneInterval ==
    Monitoring =>
        /\ Len(processes) = num_workers
        /\ \A i \in DeadSlots : sleepsSinceExit[processes[i]] <= 1
        /\ spc = "mon_sleep" =>
              \A i \in DeadSlots : sleepsSinceExit[processes[i]] = 0

\* C7 witness: a pass has ended with every slot running, after a process
\* that had stayed exited over one sleep was replaced.
C7_Witness ==
    /\ spc = "mon_sleep"
    /\ DeadSlots = {}
    /\ Len(processes) = num_workers
    /\ \E p \in Pids :
          /\ p <= launched
          /\ \A i \in 1..Len(processes) : processes[i] # p
          /\ sleepsSinceExit[p] = 1

\* C23: while start_workers runs, slot i holds the i-th process launched
\* and the i-th sink opened, each process launched but the first came after
\* one more stagger wait, and no wait is slept that is not followed by a
\* launch; once start_workers has returned, the pool has num_workers slots,
\* each with its own process and its own sink, and num_workers - 1 waits
\* were slept.
C23_StaggeredLaunch ==
    /\ spc \in StartPositions =>
          /\ Len(processes) <= num_workers
          /\ \A i \in 1..Len(processes) : processes[i] = i
          /\ \A i \in 1..Len(log_files) : log_files[i] = i
          /\ opened = Len(log_files)
          /\ launched = Len(processes) + (IF spc = "start_append" THEN 1 ELSE 0)
          /\ staggered = Len(processes) - (IF spc = "start_sleep" THEN 1 ELSE 0)
          /\ spc = "start_sleep" => Len(processes) < num_workers
    /\ Monitoring =>
          /\ Len(processes) = num_workers
          /\ Len(log_files) = num_workers
          /\ staggered = num_workers - 1
          /\ \A i, k \in 1..num_workers :
                i # k => /\ processes[i] # processes[k]
                         /\ log_files[i] # log_files[k]

\* C23 witness: start_workers has just returned with a pool of at least two
\* workers: every slot holds the process launched for it, running, and one
\* wait fewer than workers was slept.
C23_Witness ==
    /\ spc = "mon_poll"
    /\ num_workers >= 2
    /\ launched = num_workers
    /\ opened = num_workers
    /\ staggered = num_workers - 1
    /\ \A i \in 1..num_workers : processes[i] = i /\ alive[i]

\* The process is held in a slot of the pool.
InPool(p) == \E i \in 1..Len(processes) : processes[i] = p

\* C19: while monitoring goes on, every process that has exited, whichever
\* restart of its slot it was and whatever its return code, is eventually
\* replaced in its slot by a newly launched process; only the end of
\* monitoring (a shutdown signal) leaves an exited process in the pool.
C19_EveryExitIsRestarted ==
    \A p \in Pids :
        (Monitoring /\ InPool(p) /\ ~alive[p]) ~> (~Monitoring \/ ~InPool(p))

\* C19 witness: the only slot holds its third process, running, after its
\* first two processes exited in a row, one with return code 1 and one
\* with return code 0.
C19_Witness ==
    /\ Monitoring
    /\ num_workers = 1
    /\ processes = <<MaxCrashes + 1>>
    /\ alive[MaxCrashes + 1]
    /\ exitcode[1] = 1
    /\ \E p \in 2..MaxCrashes : ~alive[p] /\ exitcode[p] = 0

\* C8: when stop_workers has returned, no process of the pool is running and
\* every sink the supervisor holds is closed.
C8_StoppedMeansAllDeadAndClosed ==
    spc = "stopped" =>
        /\ \A i \in 1..Len(processes) : ~alive[processes[i]]
        /\ \A k \in 1..Len(log_files) : ~sinkOpen[log_files[k]]

\* C8 witness: stop_workers has returned after one process exited within the
\* grace period and another had to be killed.
C8_Witness ==
    /\ spc = "stopped"
    /\ \E i, k \in 1..Len(processes) :
          /\ termSent[processes[i]] = 1 /\ killSent[processes[i]] = 1
          /\ termSent[processes[k]] = 1 /\ killSent[processes[k]] = 0
          /\ exitcode[processes[k]] = -SIGTERM

\* C9: from the moment stop_workers is called again after a completed call,
\* the pool, the sinks and the signals sent are exactly what the first call
\* left (no terminate or kill is sent, nothing is reopened or revived).
C9_StopIdempotent ==
    stopCalls >= 2 => SupervisorState = firstStop[1]

\* C9 witness: a second stop_workers call has returned on a pool whose
\* processes the first call had to terminate.
C9_Witness ==
    /\ stopCalls = 2
    /\ spc = "stopped"
    /\ Len(processes) = num_workers
    /\ \A i \in 1..Len(processes) : termSent[processes[i]] = 1

\* The processes launched so far that are running.
Live == {p \in Pids : p <= launched /\ alive[p]}

\* The processes launched so far that no slot holds and that are not the
\* replacement about to be stored: the ones a restart has replaced.
Replaced == {p \in Pids : p <= launched /\ ~InPool(p) /\ p # new_process}

\* C31: never are more than num_workers processes running and no two slots
\* hold the same process; the monitor is about to launch, or has launched,
\* a replacement only for a slot whose process is not running; and while
\* monitoring, every process launched beyond the first num_workers stands
\* for one process that exited and was replaced (one restart per death).
C31_OneRestartPerDeath ==
    /\ Cardinality(Live) <= num_workers
    /\ \A i, k \in 1..Len(processes) : i # k => processes[i] # processes[k]
    /\ spc \in {"mon_close", "mon_open", "mon_popen", "mon_store"} =>
          ~alive[processes[idx]]
    /\ Monitoring =>
          /\ \A p \in Replaced : ~alive[p]
          /\ launched = num_workers + Cardinality(Replaced)
                           + (IF new_process # 0 THEN 1 ELSE 0)

\* C31 witness: in a pool of two, one worker exited and the pass of the
\* monitor has ended: three processes were launched in all, one was
\* replaced, and two are running, one in each slot.
C31_Witness ==
    /\ spc = "mon_sleep"
    /\ num_workers = 2
    /\ crashes = 1
    /\ launched = 3
    /\ Cardinality(Replaced) = 1
    /\ Cardinality(Live) = 2
    /\ \A i \in 1..2 : alive[processes[i]]

\* The sinks opened so far that are open.
OpenSinks == {k \in Pids : k <= opened /\ sinkOpen[k]}

\* The sink is held in a slot of the supervisor.
SinkHeld(k) == \E i \in 1..Len(log_files) : log_files[i] = k

\* C32: while monitor_workers runs the supervisor holds num_workers
\* processes and num_workers sinks, no sink twice; every sink it holds is
\* open, but for the sink of the slot being restarted between its close and
\* the opening of the new one; every sink it no longer holds is closed; and
\* when the replacement is launched and stored, the slot's sink is the one
\* opened last, the old one having been closed before.
C32_OneSinkPerSlot ==
    Monitoring =>
        /\ Len(processes) = num_workers
        /\ Len(log_files) = num_workers
        /\ \A i, k \in 1..num_workers : i # k => log_files[i] # log_files[k]
        /\ \A i \in 1..num_workers :
              sinkOpen[log_files[i]] <=> ~(spc = "mon_open" /\ i = idx)
        /\ \A k \in OpenSinks : SinkHeld(k)
        /\ spc \in {"mon_popen", "mon_store"} =>
              /\ log_files[idx] = opened
              /\ Cardinality(OpenSinks) = num_workers

\* C32 witness: both workers of a pool of two were restarted; the pass has
\* ended with four sinks opened in all, the two held ones open and the two
\* old ones closed.
C32_Witness ==
    /\ spc = "mon_sleep"
    /\ num_workers = 2
    /\ opened = 4
    /\ OpenSinks = {3, 4}
    /\ \A i \in 1..2 : log_files[i] \in {3, 4} /\ alive[processes[i]]

\* One step of a restart in monitor_workers (lines 147-222).
RestartStep ==
    \/ MonitorCloseLog
    \/ MonitorOpenLog
    \/ MonitorLaunch
    \/ MonitorStore

\* C33: a step of the restart of slot idx leaves every other slot as it
\* was: the same process, running or not as before, the same sink, open or
\* not as before; and it sends no signal to any process.
C33_RestartTouchesOneSlot ==
    [][RestartStep =>
          /\ \A i \in 1..Len(processes) :
                i # idx =>
                    /\ processes'[i] = processes[i]
                    /\ log_files'[i] = log_files[i]
                    /\ alive'[processes[i]] = alive[processes[i]]
                    /\ sinkOpen'[log_files[i]] = sinkOpen[log_files[i]]
          /\ termSent' = termSent
          /\ killSent' = killSent]_vars

\* C33 witness: the first slot of a pool of two has been restarted; the
\* second slot still holds the process and the sink start_workers gave it,
\* running and open, and no signal was sent.
C33_Witness ==
    /\ spc = "mon_poll"
    /\ idx = 2
    /\ num_workers = 2
    /\ processes = <<3, 2>>
    /\ log_files = <<3, 2>>
    /\ alive[2] /\ alive[3]
    /\ sinkOpen[2] /\ sinkOpen[3] /\ ~sinkOpen[1]
    /\ \A p \in Pids : termSent[p] = 0 /\ killSent[p] = 0

\* C34: stop_workers comes to kill a process only from its wait on that
\* process, with the process still running when the grace period ended and
\* after terminate() was sent to it; kill() is sent by that step alone, once;
\* terminate() is sent only to a process found running; and polling or
\* waiting on a process that has exited sends nothing and never leads to
\* the kill.
C34_KillOnlyAfterGrace ==
    [][/\ (spc' = "stop_kill" /\ spc # "stop_kill") =>
             /\ spc = "stop_wait"
             /\ alive[processes[idx]]
             /\ termSent[processes[idx]] >= 1
       /\ \A p \in Pids :
             /\ killSent'[p] # killSent[p] =>
                   /\ spc = "stop_kill"
                   /\ p = processes[idx]
                   /\ termSent[p] >= 1
                   /\ killSent'[p] = killSent[p] + 1
             /\ termSent'[p] # termSent[p] =>
                   /\ spc = "stop_poll"
                   /\ p = processes[idx]
                   /\ alive[p]
       /\ (spc \in {"stop_poll", "stop_wait"} /\ ~alive[processes[idx]]) =>
             /\ termSent' = termSent
             /\ killSent' = killSent
             /\ spc' # "stop_kill"]_vars

\* C34 witness: stop_workers has returned on a pool of two in which one
\* process had exited on its own and got no signal, and the other was
\* terminated, outlasted the grace period and was killed.
C34_Witness ==
    /\ spc = "stopped"
    /\ \E i, k \in 1..Len(processes) :
          /\ exitcode[processes[i]] = 1
          /\ termSent[processes[i]] = 0 /\ killSent[processes[i]] = 0
          /\ termSent[processes[k]] = 1 /\ killSent[processes[k]] = 1
          /\ exitcode[processes[k]] = -SIGKILL

\* main() is over: stop_workers returned in its finally clause, or a second
\* signal's SystemExit left it.
MainOver == spc \in {"stopped", "aborted"}

\* C39 (the claim as stated): once main() is over, whenever the signal came,
\* no process the supervisor launched is running.
C39_NoWorkerOutlivesMain ==
    MainOver => Live = {}

\* ================================================ claims under SpecSupLogs

\* C38 (the claim as stated): no forwarding thread ever calls write on a
\* sink that monitor_workers or stop_workers has closed.
C38_NoWriteAfterClose ==
    late_writes = {}

\* ======================================================== claims under Spec

\* Number of times x occurs in sequence s.
Count(s, x) == Cardinality({i \in 1..Len(s) : s[i] = x})

\* The artifact paths workflow j holds (not None).
Held(j) == {original_image_path[j], enhanced_image_path[j]} \ {None}

C3_InFlightBounded ==
    max_concurrent >= 1 => Cardinality(InFlight) <= max_concurrent

\* C3 witness: the gate is full and another job is waiting for a permit.
C3_Witness ==
    /\ max_concurrent >= 1
    /\ Cardinality(InFlight) = max_concurrent
    /\ \E j \in Jobs : tpc[j] = "waiting" /\ j \notin woken

OwnOutcome(j) ==
    IF images[j] = "missing_key" THEN ExceptionObject("KeyError")
    ELSE IF wpc[j] = "none" THEN FailedRecord("RPCError")
    ELSE IF wfError[j].step # "none" THEN FailedRecord("WorkflowFailureError")
    ELSE SuccessRecord

\* C5: a job's failure neither cancels nor blocks another job: every finished
\* job ends with the outcome of its own steps, a finished job holds no permit
\* (the permits are all accounted for by the jobs in flight or woken), and
\* the batch returns only when every submitted job has finished.
C5_JobsIndependent ==
    /\ \A j \in Jobs : tpc[j] = "done" => results[j] = OwnOutcome(j)
    /\ bpc = "gather" =>
          sem + Cardinality(InFlight) + Cardinality(woken) = max_concurrent
    /\ bpc = "returned" => \A j \in 1..Len(images) : tpc[j] = "done"

\* C5 witness: the batch has returned with a failed job and a succeeded job
\* that was admitted behind it.
C5_Witness ==
    /\ bpc = "returned"
    /\ max_concurrent = 1
    /\ \E j, k \in Jobs :
          /\ j < k
          /\ results[j].status = "failed"
          /\ results[k].status = "success"

\* C6 (the claim as stated): with a concurrency limit below 1 or an empty job
\* list, no workflow is started and no job blocks.
C6_ConfigErrorStartsNothing ==
    (max_concurrent < 1 \/ parsed = <<>>) =>
        \A j \in Jobs : started[j] = 0 /\ tpc[j] # "waiting"

\* C10 (the claim as stated): a job that raised an unexpected fault is in the
\* results as a failed record carrying the error type.
C10_FaultBecomesFailedRecord ==
    \A j \in Jobs :
        (tpc[j] = "done" /\ (images[j] = "missing_key" \/ wpc[j] = "none")) =>
            /\ results[j].kind = "record"
            /\ results[j].status = "failed"
            /\ results[j].error_type # "none"

\* C11 (the claim as stated): a batch with a descriptor lacking a locator
\* field is rejected before any job is admitted through the gate and before
\* any start_workflow call.
C11_MissingFieldRejectsBatch ==
    (\E i \in 1..Len(parsed) : parsed[i] = "missing_key") =>
        \A j \in Jobs :
            /\ started[j] = 0
            /\ tpc[j] \notin {"starting", "awaiting", "done"}

\* The first main step, in the order of the try block, that has not returned.
FirstNotOk(j) ==
    IF "download" \notin steps_ok[j] THEN "download"
    ELSE IF "enhance" \notin steps_ok[j] THEN "enhance"
    ELSE "upload"

C13_CleanupFailureIsHarmless ==
    "ok" \notin cleanup_outcomes =>
        \A j \in Jobs :
            /\ wfError[j].step # "cleanup"
            /\ wpc[j] \in {"cleanup_original", "cleanup_enhanced", "closed"} =>
                  pending[j] = IF steps_ok[j] = MainSteps
                               THEN "return" ELSE "raise"
            /\ wpc[j] = "closed" =>
                  \A p \in Held(j) : Count(cleaned[j], p) = 1
            /\ (tpc[j] = "done" /\ wpc[j] # "none") =>
                  results[j] = ResultRecord(IF steps_ok[j] = MainSteps
                                            THEN "return" ELSE "raise")

\* C13 witness: no cleanup can succeed, and a job whose three steps returned
\* is reported as a success after the cleanups of its original and of its
\* enhanced path were both invoked.
C13_Witness ==
    /\ "ok" \notin cleanup_outcomes
    /\ \E j \in Jobs :
          /\ tpc[j] = "done"
          /\ results[j] = SuccessRecord
          /\ cleaned[j] = <<"original", "enhanced">>

\* C15 (the claim as stated): the exit code of a returned batch run is the
\* number of jobs that did not succeed (0 when all succeeded).
C15_ExitCodeReflectsFailedCount ==
    (exit_code # <<>> /\ bpc = "returned") =>
        exit_code[1] =
            Cardinality({j \in 1..Len(images) : results[j].status # "success"})

\* C16: when the batch has returned, successful + failed is the number of
\* jobs the batch ran, and the two counts are the numbers of jobs whose own
\* outcome is, and is not, a success: whatever order the jobs finished in.
C16_SummaryCountsAllJobs ==
    bpc = "returned" =>
        /\ successful + failed = Len(images)
        /\ Len(images) = Len(Fallback(parsed))
        /\ successful =
              Cardinality({j \in 1..Len(images) : OwnOutcome(j) = SuccessRecord})
        /\ failed =
              Cardinality({j \in 1..Len(images) : OwnOutcome(j) # SuccessRecord})

\* C16 witness: a batch has returned with one success and two failures, one
\* of them a failed record and the other an exception object.
C16_Witness ==
    /\ bpc = "returned"
    /\ successful = 1
    /\ failed = 2
    /\ \E j, k \in Jobs :
          /\ results[j].kind = "exception"
          /\ results[k] = FailedRecord("WorkflowFailureError")

\* A job has been let through the gate (it entered the `async with` body).
Admitted(j) == tpc[j] \in {"starting", "awaiting", "done"}

\* C17: jobs are admitted in submission order: a job is never admitted
\* before a job submitted earlier.
C17_AdmittedInSubmissionOrder ==
    \A i, j \in 1..Len(images) :
        (i < j /\ Admitted(j)) => Admitted(i)

\* C17 witness: with one permit, the first job has finished, the second,
\* which had to wait, is admitted, and the third is still waiting.
C17_Witness ==
    /\ max_concurrent = 1
    /\ Len(images) = 3
    /\ tpc[1] = "done"
    /\ tpc[2] = "awaiting"
    /\ tpc[3] = "waiting"
    /\ waiters = <<3>>

\* C18: enhance is awaited, attempted or failed only after download has
\* returned, upload only after enhance has returned; a cleanup is invoked
\* only once the main steps have ended; the original path is never cleaned
\* after the enhanced one.
C18_StepsInSequence ==
    \A j \in Jobs :
        /\ (wpc[j] = "enhance" \/ "enhance" \in steps_ok[j]
               \/ wfError[j].step = "enhance") =>
              /\ "download" \in steps_ok[j]
              /\ original_image_path[j] # None
        /\ (wpc[j] = "upload" \/ "upload" \in steps_ok[j]
               \/ wfError[j].step = "upload") =>
              /\ "enhance" \in steps_ok[j]
              /\ enhanced_image_path[j] # None
        /\ wpc[j] = "download" => steps_ok[j] = {}
        /\ cleaned[j] # <<>> =>
              wpc[j] \in {"cleanup_original", "cleanup_enhanced", "closed"}
        /\ \A a, b \in 1..Len(cleaned[j]) :
              (cleaned[j][a] = "enhanced" /\ cleaned[j][b] = "original") => b < a

\* C18 witness: an execution whose upload failed after three attempts has
\* cleaned the original path and then the enhanced path.
C18_Witness ==
    \E j \in Jobs :
        /\ wpc[j] = "closed"
        /\ wfError[j] = [step |-> "upload", attempts |-> MaximumAttempts]
        /\ steps_ok[j] = {"download", "enhance"}
        /\ cleaned[j] = <<"original", "enhanced">>

\* C22: the list the batch returns has one entry per job of the batch, and
\* entry i is what the i-th job ended with (judged from that job's own
\* descriptor and steps), whichever jobs finished first.
C22_ResultsInSubmissionOrder ==
    bpc = "returned" =>
        /\ Len(returned) = Len(images)
        /\ \A i \in 1..Len(returned) : returned[i] = OwnOutcome(i)

\* C22 witness: three jobs under a limit of 2, the second failing in enhance
\* after three attempts: the list is success, failed, success and the
\* summary counts 2 successes and 1 failure.
C22_Witness ==
    /\ bpc = "returned"
    /\ max_concurrent = 2
    /\ returned = <<SuccessRecord, FailedRecord("WorkflowFailureError"),
                    SuccessRecord>>
    /\ wfError[2] = [step |-> "enhance", attempts |-> MaximumAttempts]
    /\ successful = 2
    /\ failed = 1

\* ================================================== claims under SpecCancel

\* C14: a step that was in flight when the cancellation arrived has failed
\* (a main step has not returned, its error is the pending outcome and no
\* main step runs after it; a cleanup has ended and its error has not
\* replaced the outcome of the main steps), and the
\* execution closes only after one cleanup has been invoked for every
\* recorded path; its result reaches the driver only then.
C14_CancelledStillCleans ==
    \A j \in Jobs :
        cancelled_at[j] # "none" =>
            /\ cancelled_at[j] \in MainSteps =>
                  /\ cancelled_at[j] \notin steps_ok[j]
                  /\ wfError[j].step = cancelled_at[j]
                  /\ pending[j] = "raise"
                  /\ wpc[j] \notin MainSteps
            /\ cancelled_at[j] \notin MainSteps =>
                  /\ wfError[j].step # "cleanup"
                  /\ wpc[j] # cancelled_at[j]
            /\ wpc[j] = "closed" =>
                  /\ Len(cleaned[j]) = Cardinality(Held(j))
                  /\ \A p \in Held(j) : Count(cleaned[j], p) = 1
            /\ tpc[j] = "done" => wpc[j] = "closed"

\* C14 witness: an execution cancelled while the cleanup of its original
\* path was in flight has closed with both recorded paths cleaned.
C14_Witness ==
    \E j \in Jobs :
        /\ cancelled_at[j] = "cleanup_original"
        /\ wpc[j] = "closed"
        /\ cleaned[j] = <<"original", "enhanced">>

\* ============================================= claims under SpecBatchCancel

\* C20 (the claim as stated): once the batch run is cancelled, no job that
\* was not admitted has a workflow, and every workflow still open has been
\* sent a cancellation request.
C20_BatchCancelReachesWorkflows ==
    bpc = "cancelled" =>
        \A j \in Jobs :
            /\ started[j] = 0 => wpc[j] = "none"
            /\ wpc[j] \notin {"none", "closed"} => cancelled_at[j] # "none"

\* =================================================== claims under SpecRerun

\* The class a job gets if it depends on nothing but the job's descriptor and
\* the external operation that failed for it.
ExpectedClass(descriptor, failed_operation) ==
    IF descriptor = "complete" /\ failed_operation = "none"
    THEN "success" ELSE "failed"

\* C21: in the first run and in the second, the class (success or failed) of
\* every job in the returned list is determined by the job's descriptor and
\* by which external operation, if any, failed for it in that run: two runs
\* given the same descriptors and the same behaviour of the external
\* operations return the same classes, and neither the executions the first
\* run left on the server nor the schedule change the second run's.
C21_RerunSameClassification ==
    bpc = "returned" =>
        /\ Len(returned) = Len(Fallback(parsed))
        /\ \A j \in 1..Len(returned) :
              Classified(returned[j]) =
                  ExpectedClass(Fallback(parsed)[j], FailedOperation(j))

\* C21 witness: the second run has returned, the first job a success and the
\* second failed in its enhance step, while the server still holds the
\* executions the first run started for both jobs.
C21_Witness ==
    /\ run = 2
    /\ bpc = "returned"
    /\ {WorkflowId(1, 1), WorkflowId(1, 2)} \subseteq workflow_ids
    /\ Len(returned) = 2
    /\ FailedOperation(1) = "none"
    /\ FailedOperation(2) = "enhance"
    /\ Classified(returned[1]) = "success"
    /\ Classified(returned[2]) = "failed"

\* ================================================ more claims under Spec

\* C26: after the terminal error of download, download is the only main
\* activity ever invoked for the job, nothing is recorded and nothing is
\* cleaned, the execution has left the main steps with the error pending,
\* and the job's record, once made, says failed; after the terminal error
\* of enhance, upload is never invoked and the job likewise ends failed.
C26_TerminalErrorSkipsLaterSteps ==
    \A j \in Jobs :
        /\ wfError[j].step = "download" =>
              /\ invoked[j] = <<"download">>
              /\ Held(j) = {}
              /\ cleaned[j] = <<>>
        /\ wfError[j].step = "enhance" => invoked[j] = <<"download", "enhance">>
        /\ wfError[j].step \in {"download", "enhance"} =>
              /\ wpc[j] \in {"cleanup_original", "cleanup_enhanced", "closed"}
              /\ pending[j] = "raise"
              /\ tpc[j] = "done" => results[j] = FailedRecord("WorkflowFailureError")

\* C26 witness: in one batch, a job whose download ended in a terminal error
\* and a job whose enhance did have both been reported.
C26_Witness ==
    \E j, k \in Jobs :
        /\ wfError[j].step = "download"
        /\ wfError[k].step = "enhance"
        /\ tpc[j] = "done"
        /\ tpc[k] = "done"

C27_CleanupAttemptedOnce ==
    "ok" \notin cleanup_outcomes =>
        \A j \in Jobs :
            /\ \A p \in Held(j) : Count(cleaned[j], p) <= 1
            /\ wpc[j] \in {"cleanup_original", "cleanup_enhanced", "closed"} =>
                  attempt[j] = 0 /\ retry_wait[j] = 0
            /\ wpc[j] = "cleanup_original" => cleaned[j] = <<>>
            /\ wpc[j] = "cleanup_enhanced" =>
                  Len(cleaned[j]) = Cardinality(Held(j) \ {enhanced_image_path[j]})
            /\ wpc[j] = "closed" => Len(cleaned[j]) = Cardinality(Held(j))

\* C27 witness: no cleanup attempt returns; a job whose upload failed has
\* been reported after one attempt to clean each of its two recorded paths.
C27_Witness ==
    /\ "ok" \notin cleanup_outcomes
    /\ \E j \in Jobs :
          /\ tpc[j] = "done"
          /\ wfError[j].step = "upload"
          /\ cleaned[j] = <<"original", "enhanced">>

\* =================================================== claims under SpecRetry

\* The execution is between two attempts of a main activity.
InRetryWait(j) == wpc[j] \in MainSteps /\ retry_wait[j] > 0

C28_BudgetPerStep ==
    [][\A j \in Jobs :
          (wpc'[j] \in MainSteps /\ wpc'[j] # wpc[j]) =>
              attempt'[j] = 0 /\ retry_wait'[j] = 0]_vars

\* C28 witness: every attempt but the third fails; download and enhance
\* each returned (on their third attempt) and upload, after two failed
\* attempts, still has its third attempt ahead.
C28_Witness ==
    /\ step_outcomes = OnlyLastCanReturn
    /\ \E j \in Jobs :
          /\ steps_ok[j] = {"download", "enhance"}
          /\ wpc[j] = "upload"
          /\ attempt[j] = MaximumAttempts - 1

\* An attempt of the main activity execution k awaits ends.
MainAttempt(k) == StepSucceeds(k) \/ StepFailsRetry(k) \/ StepFailsTerminal(k)

\* The next step of an admitted, unfinished job k can be taken: the
\* start_workflow call is answered, an attempt of its activity or cleanup
\* ends, or its result arrives.
AdmittedCanStep(k) ==
    /\ tpc[k] = "starting" =>
          ENABLED (StartWorkflowOk(k) \/ StartWorkflowFails(k))
    /\ (tpc[k] = "awaiting" /\ wpc[k] \in MainSteps) => ENABLED MainAttempt(k)
    /\ (tpc[k] = "awaiting" /\ wpc[k] = "cleanup_original") =>
          ENABLED CleanupOriginal(k)
    /\ (tpc[k] = "awaiting" /\ wpc[k] = "cleanup_enhanced") =>
          ENABLED CleanupEnhanced(k)
    /\ (tpc[k] = "awaiting" /\ wpc[k] = "closed") => ENABLED ResultArrives(k)

\* The queued job k has been handed a permit and its task can resume.
QueuedCanResume(k) == k \in woken /\ ENABLED (\E w \in Jobs : WakeUp(w))

\* C29 as claimed: while a job is in a retry wait, every other job can
\* advance: an admitted one can take its next step, and a queued one either
\* resumes or, at least, some job holding a permit is not itself in a retry
\* wait, so that a permit can come free while the wait lasts.
C29_RetryWaitBlocksNobody ==
    \A j, k \in Jobs :
        (j # k /\ InRetryWait(j)) =>
            /\ AdmittedCanStep(k)
            /\ tpc[k] = "waiting" =>
                  \/ QueuedCanResume(k)
                  \/ \E h \in InFlight : ~InRetryWait(h)

\* C29, amended: while a job is in a retry wait, every other admitted job
\* can take its next step, and a job still queued is held back by the gate
\* alone: either it has been handed a permit and resumes, or all
\* max_concurrent permits are taken (the jobs in a retry wait keep theirs).
C29_OnlyTheGateHoldsBack ==
    \A j, k \in Jobs :
        (j # k /\ InRetryWait(j)) =>
            /\ AdmittedCanStep(k)
            /\ tpc[k] = "waiting" =>
                  \/ QueuedCanResume(k)
                  \/ /\ k \notin woken
                     /\ sem = 0
                     /\ Cardinality(InFlight) + Cardinality(woken) = max_concurrent

\* C29 witness: a job is still in the retry wait of its download while a job
\* submitted after it has already finished.
C29_Witness ==
    \E j, k \in Jobs :
        /\ j < k
        /\ InRetryWait(j)
        /\ wpc[j] = "download"
        /\ tpc[k] = "done"

\* ==================================================== claims under SpecLive

\* Every job of the batch is finished with a result, nothing is inside or
\* waiting at the gate, and every permit is back.
AllDoneAndReleased ==
    /\ \A j \in 1..Len(images) : tpc[j] = "done" /\ results[j] # NoResult
    /\ InFlight = {}
    /\ woken = {}
    /\ sem = max_concurrent

\* C37: once the tasks of a non-empty batch are gathered under a limit of
\* at least 1, run_batch_image_workflows eventually returns, and it returns
\* with every job admitted and finished and with every permit released.
C37_BatchReturns ==
    (bpc = "gather") ~> (bpc = "returned" /\ AllDoneAndReleased)

\* C37 witness: a batch of two jobs run with a limit of 1, so that the
\* second job had to queue, has returned with both jobs finished and the
\* permit back.
C37_Witness ==
    /\ bpc = "returned"
    /\ max_concurrent = 1
    /\ Len(images) = 2
    /\ AllDoneAndReleased

\* =================================================== claims under SpecFiles

\* C36 (the claim as stated, for the files of attempts that did not return):
\* when a workflow execution has closed, no temporary file created by one of
\* its download or enhance attempts is left.
C36_NoTempFileLeft ==
    \A j \in Jobs : wpc[j] = "closed" => orphans[j] = 0

\* ================================================ claims under SpecOriginal

\* The step whose exception process_image is passing on.
RaisingStep == raising[1]

\* C35 (the claim as stated): when process_image raises, cleanup_temp_files
\* has been called if any step returned a path, every temporary file the
\* steps made is gone unless its deletion failed and was logged as a
\* warning, and the exception that reaches the caller is the step's.
C35_CleanupAlwaysRuns ==
    ppc = "raised" =>
        /\ (pi_original_image_path # None \/ pi_enhanced_image_path # None) =>
              cleanup_calls = 1
        /\ \A f \in disk : f \in warned
        /\ RaisingStep \in {"download", "enhance", "upload"}

\* =================================================== claims under SpecParse

\* The descriptors parse_image_list returned.
Parsed == parse_result[1]

HasFolder(key) == \E i \in 1..Len(key) : key[i] = "/"

\* C24 (the claim as stated): every descriptor's destination key is the
\* prefix followed by the basename of its source key, also when the source
\* key contains a folder path.
C24_DestIsPrefixPlusBasename ==
    parse_result # <<>> =>
        \A i \in 1..Len(Parsed) :
            Parsed[i].dest_key = Prefix \o Basename(Parsed[i].source_key)

\* C24 (amended): there is one descriptor per non-blank identifier of the
\* list, in order, whose source key is the identifier without surrounding
\* blanks; the basename of its destination key is the prefix followed by the
\* basename of the source key; the destination key is just that for an
\* identifier without '/', and for one with a '/' it is that behind the
\* identifier's folder and a '/'.
C24_DestKeepsFolder ==
    parse_result # <<>> =>
        /\ Len(Parsed) =
              Cardinality({i \in 1..Len(Split(images_config)) :
                              \E k \in 1..Len(Split(images_config)[i]) :
                                  Split(images_config)[i][k] # " "})
        /\ \A i \in 1..Len(Parsed) :
              LET src == Parsed[i].source_key
                  dst == Parsed[i].dest_key
              IN  /\ src # <<>>
                  /\ Head(src) # " " /\ src[Len(src)] # " "
                  /\ \A k \in 1..Len(src) : src[k] # ","
                  /\ Basename(dst) = Prefix \o Basename(src)
                  /\ ~HasFolder(src) => dst = Prefix \o src
                  /\ HasFolder(src) =>
                        /\ Len(dst) = Len(Dirname(src)) + 2 + Len(Basename(src))
                        /\ SubSeq(dst, 1, Len(Dirname(src))) = Dirname(src)
                        /\ dst[Len(Dirname(src)) + 1] = "/"

\* C24 witness: the list "a,a/a" has been parsed into two descriptors, the
\* first with destination enhanced_a and the second with a/enhanced_a.
C24_Witness ==
    /\ images_config = <<"a", ",", "a", "/", "a">>
    /\ parse_result # <<>>
    /\ Len(Parsed) = 2
    /\ Parsed[1].dest_key = <<"enhanced_", "a">>
    /\ Parsed[2].source_key = <<"a", "/", "a">>
    /\ Parsed[2].dest_key = <<"a", "/", "enhanced_", "a">>

=============================================================================
